---- MODULE Spec2Model ----
(***************************************************************************)
(* Conversation orchestration core of the chat server: socket handlers     *)
(* (startChat, message, deleteSession, disconnect), the HTTP session       *)
(* delete, the variable extractor and the spreadsheet exporter, over the   *)
(* ChatSession / Message / ChatVariable / GlobalSettings tables.           *)
(* Every handler invocation is a task; one action is one continuation of   *)
(* the handler between two awaits of the single-threaded event loop.       *)
(***************************************************************************)
EXTENDS Integers, Sequences, FiniteSets, TLC

VARIABLES
  sockets,    \* socket id -> "new" | "open" | "closed"
  sessions,   \* ChatSession table: set of sessionId
  messages,   \* Message table, rows in insertion order
  chatVars,   \* ChatVariable table, rows in insertion order
  settings,   \* GlobalSettings row id=1 (exists = FALSE: no row)
  sheetRows,  \* rows appended to the target spreadsheet
  tasks,      \* handler invocations, in order of event arrival
  now,        \* wall clock in milliseconds (Date.now)
  nextId,     \* auto-increment primary key of Message
  files,      \* the kb_pdfs directory: file name -> mtime (0: no such file)
  pdfContent, \* PdfContent table: filePath -> row (lastModified 0: no row)
  migrations, \* the migrations directory: set of file names
  SequelizeMeta, \* SequelizeMeta table: set of names
  applied     \* migration file -> number of its 'up' calls that succeeded

vars == <<sockets, sessions, messages, chatVars, settings, sheetRows, tasks, now, nextId,
          files, pdfContent, migrations, SequelizeMeta, applied>>

----------------------------------------------------------------------------
(* Bounds of the model *)

MaxTasks == 3
MaxClock == 2
MaxInFlight == 2
MaxTeardowns == 2
MaxMtime == 2

SocketIds == {"s1"}
NULL == "NULL"
UserTexts == {"hi"}

----------------------------------------------------------------------------
(* Text helpers *)

S10 == "aaaaaaaaaa"
S100 == S10 \o S10 \o S10 \o S10 \o S10 \o S10 \o S10 \o S10 \o S10 \o S10
S500 == S100 \o S100 \o S100 \o S100 \o S100
LongReply == S500 \o "b"

\* completion backend answers for a chat turn: of 500 and of 501 characters
Replies == {S500, LongReply}

MAX_LENGTH == 500

\* a cut that leaves out the marker
SliceOnly(raw) ==
  IF Len(raw) > MAX_LENGTH THEN SubSeq(raw, 1, MAX_LENGTH) ELSE raw

\* a cut that starts at the maximum length itself
LimitLengthInclusive(raw) ==
  IF Len(raw) >= MAX_LENGTH THEN SubSeq(raw, 1, MAX_LENGTH) \o "..." ELSE raw

\* assistantMessage.length > MAX_LENGTH ? slice(0, MAX_LENGTH) + '...' : as is
LimitLength(raw) ==
  IF Len(raw) > MAX_LENGTH THEN SubSeq(raw, 1, MAX_LENGTH) \o "..." ELSE raw

RECURSIVE JoinWith(_, _)
\* Array.prototype.join
JoinWith(seq, sep) ==
  IF seq = <<>> THEN ""
  ELSE IF Len(seq) = 1 THEN seq[1]
  ELSE seq[1] \o sep \o JoinWith(Tail(seq), sep)

Range(f) == {f[i] : i \in DOMAIN f}

----------------------------------------------------------------------------
(* Tables *)

\* rows of the Message table of one session, in insertion order
MessagesOf(msgs, sid) == SelectSeq(msgs, LAMBDA m : m.sessionId = sid)

RECURSIVE OrderedBy(_, _, _)
\* the orders in which a query with ORDER BY timestamp may return the rows
\* rows[i], i \in S: sorted by timestamp (asc or descending), rows of equal
\* timestamp in an order the database chooses
OrderedBy(rows, S, asc) ==
  IF S = {} THEN {<<>>}
  ELSE LET first == {i \in S : \A j \in S :
                       IF asc THEN rows[i].timestamp <= rows[j].timestamp
                              ELSE rows[i].timestamp >= rows[j].timestamp}
       IN UNION {{<<rows[i]>> \o r : r \in OrderedBy(rows, S \ {i}, asc)} : i \in first}

\* Message.findAll({ where: { sessionId }, order: [['timestamp', 'ASC']] })
FindAllMessages(msgs, sid) ==
  LET rows == MessagesOf(msgs, sid) IN OrderedBy(rows, DOMAIN rows, TRUE)

\* Message.create lands: the foreign key Message.sessionId -> ChatSession
\* makes the insert fail when the ChatSession row does not exist
CanInsertMessage(sess, sid) == sid \in sess

InsertMessage(msgs, id, sid, role, content, ts, by) ==
  Append(msgs, [id |-> id, sessionId |-> sid, role |-> role, content |-> content,
                timestamp |-> ts, by |-> by])

\* Message.destroy({ where: { sessionId } })
DestroyMessages(msgs, sid) == SelectSeq(msgs, LAMBDA m : m.sessionId # sid)

\* ChatSession.destroy({ where: { sessionId } }): the Message rows that still
\* reference the session get their foreign key set to NULL (ON DELETE SET NULL)
OrphanMessages(msgs, sid) ==
  [i \in 1..Len(msgs) |->
     IF msgs[i].sessionId = sid THEN [msgs[i] EXCEPT !.sessionId = NULL] ELSE msgs[i]]

\* rows of the ChatVariable table of one session, in insertion order
VariablesOf(cvs, sid) == SelectSeq(cvs, LAMBDA v : v.sessionId = sid)

\* ChatVariable.findAll({ where: { sessionId }, order: [['timestamp', 'DESC']] })
FindAllVariables(cvs, sid) ==
  LET rows == VariablesOf(cvs, sid) IN OrderedBy(rows, DOMAIN rows, FALSE)

----------------------------------------------------------------------------
(* GlobalSettings *)

NoSettings ==
  [exists |-> FALSE, prompt |-> "", knowledgeBaseSheetIds |-> <<>>,
   knowledgeBaseUrls |-> <<>>, knowledgeBasePdfPaths |-> <<>>,
   extractionHeaders |-> <<>>, targetSpreadsheetId |-> NULL]

DefaultSettings ==
  [exists |-> TRUE, prompt |-> "You are a helpful assistant.",
   knowledgeBaseSheetIds |-> <<>>, knowledgeBaseUrls |-> <<>>,
   knowledgeBasePdfPaths |-> <<>>,
   extractionHeaders |-> <<>>, targetSpreadsheetId |-> NULL]

\* GlobalSettings rows the administrative routes can have produced before
\* the chats of the model start
InitSettings ==
  { NoSettings,
    DefaultSettings,
    [DefaultSettings EXCEPT !.extractionHeaders = <<"name", "constructor">>,
                            !.targetSpreadsheetId = "sheetT"],
    [DefaultSettings EXCEPT !.knowledgeBaseSheetIds = <<"k1">>,
                            !.knowledgeBaseUrls = <<"w1">>],
    [DefaultSettings EXCEPT !.targetSpreadsheetId = "sheetT"] }

----------------------------------------------------------------------------
(* The kb_pdfs directory and the PdfContent table *)

PdfDir == "kb_pdfs"

\* names a file of the directory can have, in the order readdir lists them
DirOrder == <<"B.PDF", "a.pdf", "notes.txt">>
FileNames == {DirOrder[k] : k \in DOMAIN DirOrder}

\* path.join(pdfDir, file)
PathJoin(dir, file) == dir \o "/" \o file

\* path.basename: what follows the last separator
Basename(p) ==
  LET CutAt(k) == SubSeq(p, k + 1, Len(p))
      Slashes == {k \in 1..Len(p) : SubSeq(p, k, k) = "/"}
  IN IF Slashes = {} THEN p
     ELSE CutAt(CHOOSE k \in Slashes : \A l \in Slashes : l <= k)

Lower(c) ==
  CASE c = "B" -> "b" [] c = "P" -> "p" [] c = "D" -> "d" [] c = "F" -> "f" [] OTHER -> c

RECURSIVE ToLowerCase(_)
\* String.prototype.toLowerCase
ToLowerCase(str) ==
  IF str = "" THEN ""
  ELSE Lower(SubSeq(str, 1, 1)) \o ToLowerCase(SubSeq(str, 2, Len(str)))

\* String.prototype.endsWith
EndsWith(str, suffix) ==
  Len(str) >= Len(suffix) /\ SubSeq(str, Len(str) - Len(suffix) + 1, Len(str)) = suffix

\* file.toLowerCase().endsWith('.pdf')
IsPdfFile(file) == EndsWith(ToLowerCase(file), ".pdf")

\* fs.readdir(pdfDir)
Readdir(fs) == SelectSeq(DirOrder, LAMBDA f : fs[f] > 0)

PdfPaths == {PathJoin(PdfDir, f) : f \in FileNames}

NoFiles == [f \in FileNames |-> 0]
NoPdfContent == [p \in PdfPaths |-> [lastModified |-> 0, content |-> 0]]

\* the migrations directory in the order fs.readdir lists it
MigrationsDirOrder ==
  <<"20240321_add_extraction_settings.js", "20240401_add_pdf_paths.js", "README.md">>
MigrationNames == Range(MigrationsDirOrder)

\* the migration file of the repository
ShippedMigrations == {"20240321_add_extraction_settings.js"}

NoneApplied == [f \in MigrationNames |-> 0]

----------------------------------------------------------------------------
(* Tasks *)

NewTask(kind, sock, sid, text) ==
  [kind |-> kind, sock |-> sock, sid |-> sid, pc |-> "start", text |-> text,
   ts |-> 0, hist |-> <<>>, fm |-> <<>>, gs |-> NoSettings, idx |-> 0, ctx |-> "",
   resp |-> "", out |-> <<>>, headers |-> <<>>, ev |-> <<>>, row |-> <<>>,
   reqs |-> 0, failed |-> "", got |-> <<>>, gotWeb |-> <<>>,
   act |-> "", prev |-> NoSettings]

\* the handler returns: its locals are gone; what it sent, received and
\* reported stays on record
Return(t) ==
  [t EXCEPT !.pc = "done", !.ts = 0, !.hist = <<>>, !.idx = 0, !.gs = NoSettings,
            !.ctx = "", !.headers = <<>>, !.prev = NoSettings]

TaskIds == 1..Len(tasks)

TeardownKinds == {"deleteSession", "disconnect", "httpDelete"}

CountKind(kinds) == Cardinality({i \in TaskIds : tasks[i].kind \in kinds})

\* a further teardown request arrives
AdmitsTeardown == CountKind(TeardownKinds) < MaxTeardowns

\* handler invocations that have not returned yet
InFlight == {i \in TaskIds : tasks[i].pc # "done"}

\* requests arrive one after the other: no handler is running
Quiet == InFlight = {}

\* a further event arrives
Admits == Len(tasks) < MaxTasks /\ Cardinality(InFlight) < MaxInFlight

\* socket.emit(ev, { message: msg }) / res.json: what the caller receives
Emit(t, ev, msg) == Append(t.out, [ev |-> ev, msg |-> msg])

\* the clock read by a model default (DataTypes.NOW): time may have advanced
ClockReads == {now} \cup (IF now < MaxClock THEN {now + 1} ELSE {})

Init ==
  /\ sockets = [s \in SocketIds |-> "new"]
  /\ sessions = {}
  /\ messages = <<>>
  /\ chatVars = <<>>
  /\ settings \in InitSettings
  /\ sheetRows = <<>>
  /\ tasks = <<>>
  /\ now = 0
  /\ nextId = 1
  /\ files = NoFiles
  /\ pdfContent = NoPdfContent
  /\ migrations = ShippedMigrations
  /\ SequelizeMeta = {}
  /\ applied = NoneApplied

----------------------------------------------------------------------------
(* Connection and session start *)

\* io.on('connection')
Connect(s) ==
  /\ sockets[s] = "new"
  /\ sockets' = [sockets EXCEPT ![s] = "open"]
  /\ UNCHANGED <<sessions, messages, chatVars, settings, sheetRows, tasks, now, nextId>>
  /\ UNCHANGED <<files, pdfContent, migrations, SequelizeMeta, applied>>

\* socket.on('startChat'): ChatSession.create is issued
StartChat(s) ==
  /\ sockets[s] = "open"
  /\ Admits
  /\ tasks' = Append(tasks, [NewTask("startChat", s, s, "") EXCEPT !.pc = "c_create"])
  /\ UNCHANGED <<sockets, sessions, messages, chatVars, settings, sheetRows, now, nextId>>
  /\ UNCHANGED <<files, pdfContent, migrations, SequelizeMeta, applied>>

\* a create that replaces the session of a key already in use
StartChatReplace(i) ==
  /\ tasks[i].pc = "c_create"
  /\ sessions' = sessions \cup {tasks[i].sid}
  /\ messages' = OrphanMessages(messages, tasks[i].sid)
  /\ tasks' = [tasks EXCEPT ![i] = Return(@)]
  /\ UNCHANGED <<sockets, chatVars, settings, sheetRows, now, nextId>>
  /\ UNCHANGED <<files, pdfContent, migrations, SequelizeMeta, applied>>

\* ChatSession.create lands: a duplicate primary key is an error, logged
StartChatCreate(i) ==
  /\ tasks[i].pc = "c_create"
  /\ IF tasks[i].sid \in sessions
       THEN /\ tasks' = [tasks EXCEPT ![i] = Return([@ EXCEPT !.failed = "duplicate"])]
            /\ UNCHANGED sessions
       ELSE /\ sessions' = sessions \cup {tasks[i].sid}
            /\ tasks' = [tasks EXCEPT ![i] = Return(@)]
  /\ UNCHANGED <<sockets, messages, chatVars, settings, sheetRows, now, nextId>>
  /\ UNCHANGED <<files, pdfContent, migrations, SequelizeMeta, applied>>

----------------------------------------------------------------------------
(* Knowledge context *)

\* what sheets.spreadsheets.values.get returns for a knowledge-base sheet:
\* no values, or a header row and rows (the last one short of a cell)
SheetValues == {<<>>, <<<<"item", "price">>, <<"tea", "3">>, <<"milk">>>>}

\* what fetchWebpageContent returns for a page
WebPages == {[title |-> "Shop", content |-> "Open 9 to 5"]}

\* row[index] || ''
Cell(row, index) == IF index <= Len(row) /\ row[index] # "" THEN row[index] ELSE ""

\* headers.map((header, index) => `${header}: ${row[index] || ''}`).join(', ')
FormatRow(headers, row) ==
  JoinWith([i \in 1..Len(headers) |-> headers[i] \o ": " \o Cell(row, i)], ", ")

RECURSIVE FormatRows(_, _)
FormatRows(headers, rows) ==
  IF rows = <<>> THEN ""
  ELSE FormatRow(headers, Head(rows)) \o "\n" \o FormatRows(headers, Tail(rows))

\* one iteration of the loop of formatAllSheetDataForContext, fetch succeeded
FormatSheet(sheetId, data) ==
  IF data = <<>> THEN ""
  ELSE "\nData from Sheet " \o sheetId \o ":\n" \o FormatRows(Head(data), Tail(data))

\* one iteration of the loop of formatAllWebpageContentForContext, fetch succeeded
FormatWebpage(url, page) ==
  "\nContent from " \o url \o ":\n" \o "Title: " \o page.title \o "\n"
    \o "Content: " \o page.content \o "\n"

SheetLabel == "Knowledge Base Information:\n"
WebLabel == "Webpage Knowledge Base:\n"

\* an insertion at the end of the list
PushLast(fm, content) == fm \o <<[role |-> "system", content |-> content]>>

\* formattedMessages.unshift({ role: 'system', content })
Unshift(fm, content) == <<[role |-> "system", content |-> content]>> \o fm

----------------------------------------------------------------------------
(* socket.on('message') *)

\* a catch that logs the error and tells the client nothing
TurnErrorSilent(t, why) == Return([t EXCEPT !.failed = why])

\* the catch of the handler: socket.emit('error', ...)
TurnError(t, why) ==
  Return([t EXCEPT !.failed = why, !.out = Emit(t, "error", "An error occurred")])

\* socket.emit('typing') and openai.chat.completions.create is issued
CallCompletion(t) ==
  [t EXCEPT !.pc = "m_complete", !.out = Emit(t, "typing", "assistant")]

\* a handler that calls the completion without fetching the pages
AfterSheetsSkipUrls(t) == CallCompletion(t)

\* the webpage block is next when URLs are configured, else the completion
AfterSheets(t) ==
  IF Len(t.gs.knowledgeBaseUrls) > 0
    THEN [t EXCEPT !.pc = "m_url", !.idx = 1, !.ctx = WebLabel]
    ELSE CallCompletion(t)

\* the event arrives: ChatSession.findByPk(socket.id) is issued
Message(s, text) ==
  /\ sockets[s] = "open"
  /\ Admits
  /\ tasks' = Append(tasks, [NewTask("message", s, s, text) EXCEPT !.pc = "m_find"])
  /\ UNCHANGED <<sockets, sessions, messages, chatVars, settings, sheetRows, now, nextId>>
  /\ UNCHANGED <<files, pdfContent, migrations, SequelizeMeta, applied>>

\* a handler that goes on to Message.create without looking at the session
MsgFindUnguarded(i) ==
  /\ tasks[i].pc = "m_find"
  /\ \E ts \in ClockReads :
       /\ now' = ts
       /\ tasks' = [tasks EXCEPT ![i].pc = "m_user", ![i].ts = ts]
  /\ UNCHANGED <<sockets, sessions, messages, chatVars, settings, sheetRows, nextId>>
  /\ UNCHANGED <<files, pdfContent, migrations, SequelizeMeta, applied>>

\* findByPk returns: no session, return; else Message.create of the user
\* message is built (its timestamp read from the clock) and issued
MsgFind(i) ==
  /\ tasks[i].pc = "m_find"
  /\ IF tasks[i].sid \notin sessions
       THEN /\ tasks' = [tasks EXCEPT ![i] = Return([@ EXCEPT !.failed = "nosession"])]
            /\ UNCHANGED now
       ELSE \E ts \in ClockReads :
              /\ now' = ts
              /\ tasks' = [tasks EXCEPT ![i].pc = "m_user", ![i].ts = ts]
  /\ UNCHANGED <<sockets, sessions, messages, chatVars, settings, sheetRows, nextId>>
  /\ UNCHANGED <<files, pdfContent, migrations, SequelizeMeta, applied>>

\* the user message is inserted; Message.findAll is issued
MsgUser(i) ==
  /\ tasks[i].pc = "m_user"
  /\ IF CanInsertMessage(sessions, tasks[i].sid)
       THEN /\ messages' = InsertMessage(messages, nextId, tasks[i].sid, "user",
                                         tasks[i].text, tasks[i].ts, i)
            /\ nextId' = nextId + 1
            /\ tasks' = [tasks EXCEPT ![i].pc = "m_hist"]
       ELSE /\ tasks' = [tasks EXCEPT ![i] = TurnError(@, "fk")]
            /\ UNCHANGED <<messages, nextId>>
  /\ UNCHANGED <<sockets, sessions, chatVars, settings, sheetRows, now>>
  /\ UNCHANGED <<files, pdfContent, migrations, SequelizeMeta, applied>>

\* messages.map(msg => ({ role, content }))
FormatMessages(rows) ==
  [k \in 1..Len(rows) |-> [role |-> rows[k].role, content |-> rows[k].content]]

\* findAll returns the history; GlobalSettings.findByPk is issued
MsgHistory(i) ==
  /\ tasks[i].pc = "m_hist"
  /\ \E rows \in FindAllMessages(messages, tasks[i].sid) :
       tasks' = [tasks EXCEPT ![i].pc = "m_settings",
                              ![i].hist = [k \in 1..Len(rows) |-> rows[k].id],
                              ![i].fm = FormatMessages(rows)]
  /\ UNCHANGED <<sockets, sessions, messages, chatVars, settings, sheetRows, now, nextId>>
  /\ UNCHANGED <<files, pdfContent, migrations, SequelizeMeta, applied>>

\* a handler that reads the prompt of a missing row as empty
MsgSettingsOptional(i) ==
  /\ tasks[i].pc = "m_settings"
  /\ LET t == [tasks[i] EXCEPT !.gs = settings, !.fm = Unshift(@, settings.prompt)]
     IN tasks' = [tasks EXCEPT ![i] =
          IF Len(settings.knowledgeBaseSheetIds) > 0
            THEN [t EXCEPT !.pc = "m_sheet", !.idx = 1, !.ctx = SheetLabel]
            ELSE AfterSheets(t)]
  /\ UNCHANGED <<sockets, sessions, messages, chatVars, settings, sheetRows, now, nextId>>
  /\ UNCHANGED <<files, pdfContent, migrations, SequelizeMeta, applied>>

\* the settings arrive: the system prompt is put in front; reading .prompt
\* of a missing row throws
MsgSettings(i) ==
  /\ tasks[i].pc = "m_settings"
  /\ IF ~settings.exists
       THEN tasks' = [tasks EXCEPT ![i] = TurnError(@, "settings")]
       ELSE LET t == [tasks[i] EXCEPT !.gs = settings,
                                      !.fm = Unshift(@, settings.prompt)]
            IN tasks' = [tasks EXCEPT ![i] =
                 IF Len(settings.knowledgeBaseSheetIds) > 0
                   THEN [t EXCEPT !.pc = "m_sheet", !.idx = 1, !.ctx = SheetLabel]
                   ELSE AfterSheets(t)]
  /\ UNCHANGED <<sockets, sessions, messages, chatVars, settings, sheetRows, now, nextId>>
  /\ UNCHANGED <<files, pdfContent, migrations, SequelizeMeta, applied>>

\* the outcome of one fetchSheetData call: the values, or a failure
Fetched(data) == [ok |-> TRUE, data |-> data]
FetchFailed == [ok |-> FALSE, data |-> <<>>]
SheetFetches == {Fetched(data) : data \in SheetValues} \cup {FetchFailed}

\* a loop that lets the failure of one fetch reach the handler, whose catch
\* logs it and adds no spreadsheet block
MsgSheetFailFast(i) ==
  /\ tasks[i].pc = "m_sheet"
  /\ \E f \in SheetFetches :
       LET t == [tasks[i] EXCEPT !.got = Append(@, f)]
           ids == t.gs.knowledgeBaseSheetIds
           ctx == t.ctx \o FormatSheet(ids[t.idx], f.data)
       IN tasks' = [tasks EXCEPT ![i] =
            IF ~f.ok THEN AfterSheets(t)
            ELSE IF t.idx < Len(ids)
              THEN [t EXCEPT !.idx = t.idx + 1, !.ctx = ctx]
              ELSE AfterSheets([t EXCEPT !.ctx = ctx,
                                         !.fm = Unshift(@, "Additional Context:\n" \o ctx)])]
  /\ UNCHANGED <<sockets, sessions, messages, chatVars, settings, sheetRows, now, nextId>>
  /\ UNCHANGED <<files, pdfContent, migrations, SequelizeMeta, applied>>

\* fetchSheetData of the idx-th sheet settles (its values, or a failure that
\* is logged); after the last one the block is put in front
MsgSheet(i) ==
  /\ tasks[i].pc = "m_sheet"
  /\ \E f \in SheetFetches :
       LET t == [tasks[i] EXCEPT !.got = Append(@, f)]
           ids == t.gs.knowledgeBaseSheetIds
           ctx == IF f.ok THEN t.ctx \o FormatSheet(ids[t.idx], f.data) ELSE t.ctx
       IN tasks' = [tasks EXCEPT ![i] =
            IF t.idx < Len(ids)
              THEN [t EXCEPT !.idx = t.idx + 1, !.ctx = ctx]
              ELSE AfterSheets([t EXCEPT !.ctx = ctx,
                                         !.fm = Unshift(@, "Additional Context:\n" \o ctx)])]
  /\ UNCHANGED <<sockets, sessions, messages, chatVars, settings, sheetRows, now, nextId>>
  /\ UNCHANGED <<files, pdfContent, migrations, SequelizeMeta, applied>>

\* fetchWebpageContent of the idx-th URL settles; after the last one the
\* block is put in front, 'typing' is emitted and the completion is called
MsgUrl(i) ==
  /\ tasks[i].pc = "m_url"
  /\ \E ok \in BOOLEAN, page \in WebPages :
       LET t == [tasks[i] EXCEPT !.gotWeb = Append(@, ok)]
           urls == t.gs.knowledgeBaseUrls
           ctx == IF ok THEN t.ctx \o FormatWebpage(urls[t.idx], page) ELSE t.ctx
       IN tasks' = [tasks EXCEPT ![i] =
            IF t.idx < Len(urls)
              THEN [t EXCEPT !.idx = t.idx + 1, !.ctx = ctx]
              ELSE CallCompletion([t EXCEPT !.ctx = ctx,
                                            !.fm = Unshift(@, "Additional Context:\n" \o ctx)])]
  /\ UNCHANGED <<sockets, sessions, messages, chatVars, settings, sheetRows, now, nextId>>
  /\ UNCHANGED <<files, pdfContent, migrations, SequelizeMeta, applied>>

\* a catch that only logs
MsgCompleteFailSilent(i) ==
  /\ tasks[i].pc = "m_complete"
  /\ tasks' = [tasks EXCEPT ![i] = Return([@ EXCEPT !.failed = "completion"])]
  /\ UNCHANGED <<sockets, sessions, messages, chatVars, settings, sheetRows, now, nextId>>
  /\ UNCHANGED <<files, pdfContent, migrations, SequelizeMeta, applied>>

\* the completion call fails: the catch emits 'error'
MsgCompleteFail(i) ==
  /\ tasks[i].pc = "m_complete"
  /\ tasks' = [tasks EXCEPT ![i] = TurnError(@, "completion")]
  /\ UNCHANGED <<sockets, sessions, messages, chatVars, settings, sheetRows, now, nextId>>
  /\ UNCHANGED <<files, pdfContent, migrations, SequelizeMeta, applied>>

\* the completion returns: 'stopTyping' is emitted and Message.create of the
\* length-limited assistant message is built and issued
MsgComplete(i) ==
  /\ tasks[i].pc = "m_complete"
  /\ \E raw \in Replies, ts \in ClockReads :
       /\ now' = ts
       /\ tasks' = [tasks EXCEPT ![i].pc = "m_asst", ![i].resp = raw, ![i].ts = ts,
                                 ![i].out = Emit(tasks[i], "stopTyping", "assistant")]
  /\ UNCHANGED <<sockets, sessions, messages, chatVars, settings, sheetRows, nextId>>
  /\ UNCHANGED <<files, pdfContent, migrations, SequelizeMeta, applied>>

\* the assistant message is inserted and 'response' is emitted
MsgAssistant(i) ==
  /\ tasks[i].pc = "m_asst"
  /\ LET assistantMessage == LimitLength(tasks[i].resp)
     IN IF CanInsertMessage(sessions, tasks[i].sid)
          THEN /\ messages' = InsertMessage(messages, nextId, tasks[i].sid, "assistant",
                                            assistantMessage, tasks[i].ts, i)
               /\ nextId' = nextId + 1
               /\ tasks' = [tasks EXCEPT ![i] =
                      Return([@ EXCEPT !.out = Emit(tasks[i], "response", assistantMessage)])]
          ELSE /\ tasks' = [tasks EXCEPT ![i] = TurnError(@, "fk")]
               /\ UNCHANGED <<messages, nextId>>
  /\ UNCHANGED <<sockets, sessions, chatVars, settings, sheetRows, now>>
  /\ UNCHANGED <<files, pdfContent, migrations, SequelizeMeta, applied>>

----------------------------------------------------------------------------
(* analyzeChatForVariables: values and objects *)

\* a JSON value of the structured response
Str(s) == [t |-> "str", s |-> s, n |-> 0]
Num(n) == [t |-> "num", s |-> "", n |-> n]

\* String(variableValue)
StringOf(v) == IF v.t = "num" THEN ToString(v.n) ELSE v.s

\* an object is the sequence of its own entries, in Object.entries order
OwnKeys(obj) == {obj[k].k : k \in DOMAIN obj}

\* property names every object inherits from Object.prototype
ObjectPrototypeKeys ==
  {"constructor", "hasOwnProperty", "isPrototypeOf", "propertyIsEnumerable",
   "toLocaleString", "toString", "valueOf"}

\* extractedVariables[header]: the own value, else what Object.prototype gives
GetProperty(obj, key) ==
  IF key \in OwnKeys(obj) THEN (CHOOSE e \in Range(obj) : e.k = key).v
  ELSE IF key \in ObjectPrototypeKeys THEN [t |-> "inherited", s |-> key, n |-> 0]
  ELSE [t |-> "undefined", s |-> "", n |-> 0]

\* header in extractedVariables
HasProperty(obj, key) == key \in OwnKeys(obj) \/ key \in ObjectPrototypeKeys

\* extractedVariables[header] = value
SetProperty(obj, key, value) ==
  IF key \in OwnKeys(obj)
    THEN [k \in DOMAIN obj |-> IF obj[k].k = key THEN [k |-> key, v |-> value] ELSE obj[k]]
    ELSE Append(obj, [k |-> key, v |-> value])

RECURSIVE SetAll(_, _, _)
\* missingHeaders.forEach(header => { extractedVariables[header] = ''; })
SetAll(obj, keys, value) ==
  IF keys = <<>> THEN obj
  ELSE SetAll(SetProperty(obj, Head(keys), value), Tail(keys), value)

\* headers.filter(header => !(header in extractedVariables))
MissingHeaders(headers, obj) == SelectSeq(headers, LAMBDA h : ~HasProperty(obj, h))

\* the object analyzeChatForVariables saves and returns
AddMissingHeaders(headers, obj) == SetAll(obj, MissingHeaders(headers, obj), Str(""))

\* messages.map(m => m.content).join('\n')
ChatText(rows) == JoinWith([k \in 1..Len(rows) |-> rows[k].content], "\n")

\* structured responses of the completion backend, parsed
ExtractedObjects ==
  { <<[k |-> "constructor", v |-> Num(7)], [k |-> "name", v |-> Str("Ann")]>>, <<>> }

----------------------------------------------------------------------------
(* writeVariablesToSpreadsheet *)

\* variables.find(v => v.variableName === header): value of the first match
FindValue(variables, header) ==
  LET hits == SelectSeq(variables, LAMBDA v : v.variableName = header)
  IN IF hits = <<>> THEN "" ELSE Head(hits).variableValue

\* a row with one cell per record, in the order the records were read
RowDataInReadOrder(headers, variables) ==
  [k \in 1..Len(variables) |-> variables[k].variableValue]

\* headers.map(header => ...)
RowData(headers, variables) == [h \in 1..Len(headers) |-> FindValue(variables, headers[h])]

----------------------------------------------------------------------------
(* Session teardown: socket.on('deleteSession'), socket.on('disconnect'),  *)
(* app.delete('/api/sessions/:sessionId')                                  *)

\* the catch of the handler
TeardownError(t, why) ==
  Return([t EXCEPT !.failed = why,
            !.out = IF t.kind = "deleteSession" THEN Emit(t, "error", "Error deleting session")
                    ELSE IF t.kind = "httpDelete" THEN Emit(t, "http500", "Server error")
                    ELSE t.out])

\* the end of the try block
TeardownDone(t) ==
  Return([t EXCEPT
            !.out = IF t.kind = "deleteSession" THEN Emit(t, "sessionDeleted", t.sid)
                    ELSE IF t.kind = "httpDelete" THEN Emit(t, "http200", "success")
                    ELSE t.out])

\* socket.on('deleteSession'): data.sessionId || socket.id
DeleteSession(s, sid) ==
  /\ sockets[s] = "open"
  /\ Admits /\ AdmitsTeardown
  /\ tasks' = Append(tasks, [NewTask("deleteSession", s, sid, "") EXCEPT !.pc = "a_settings"])
  /\ UNCHANGED <<sockets, sessions, messages, chatVars, settings, sheetRows, now, nextId>>
  /\ UNCHANGED <<files, pdfContent, migrations, SequelizeMeta, applied>>

\* socket.on('disconnect')
Disconnect(s) ==
  /\ sockets[s] = "open"
  /\ Admits /\ AdmitsTeardown
  /\ sockets' = [sockets EXCEPT ![s] = "closed"]
  /\ tasks' = Append(tasks, [NewTask("disconnect", s, s, "") EXCEPT !.pc = "a_settings"])
  /\ UNCHANGED <<sessions, messages, chatVars, settings, sheetRows, now, nextId>>
  /\ UNCHANGED <<files, pdfContent, migrations, SequelizeMeta, applied>>

\* app.delete('/api/sessions/:sessionId')
HttpDelete(sid) ==
  /\ Admits /\ AdmitsTeardown
  /\ tasks' = Append(tasks, [NewTask("httpDelete", "http", sid, "") EXCEPT !.pc = "a_settings"])
  /\ UNCHANGED <<sockets, sessions, messages, chatVars, settings, sheetRows, now, nextId>>
  /\ UNCHANGED <<files, pdfContent, migrations, SequelizeMeta, applied>>

\* an extractor without the early return on an empty header list
AnalyzeSettingsUnguarded(i) ==
  /\ tasks[i].pc = "a_settings"
  /\ LET headers == IF settings.exists THEN settings.extractionHeaders ELSE <<>>
     IN tasks' = [tasks EXCEPT ![i].pc = "a_msgs", ![i].headers = headers]
  /\ UNCHANGED <<sockets, sessions, messages, chatVars, settings, sheetRows, now, nextId>>
  /\ UNCHANGED <<files, pdfContent, migrations, SequelizeMeta, applied>>

\* analyzeChatForVariables: the settings arrive; without headers it returns
\* {} and writeVariablesToSpreadsheet starts, else Message.findAll is issued
AnalyzeSettings(i) ==
  /\ tasks[i].pc = "a_settings"
  /\ LET headers == IF settings.exists THEN settings.extractionHeaders ELSE <<>>
         t == tasks[i]
     IN tasks' = [tasks EXCEPT ![i] =
          IF Len(headers) = 0
            THEN [t EXCEPT !.pc = "w_settings"]
            ELSE [t EXCEPT !.pc = "a_msgs", !.headers = headers]]
  /\ UNCHANGED <<sockets, sessions, messages, chatVars, settings, sheetRows, now, nextId>>
  /\ UNCHANGED <<files, pdfContent, migrations, SequelizeMeta, applied>>

\* the messages arrive: the extraction request is issued
AnalyzeMessages(i) ==
  /\ tasks[i].pc = "a_msgs"
  /\ \E rows \in FindAllMessages(messages, tasks[i].sid) :
       tasks' = [tasks EXCEPT ![i].pc = "a_complete", ![i].ctx = ChatText(rows),
                              ![i].reqs = @ + 1]
  /\ UNCHANGED <<sockets, sessions, messages, chatVars, settings, sheetRows, now, nextId>>
  /\ UNCHANGED <<files, pdfContent, migrations, SequelizeMeta, applied>>

\* the extraction request fails, or JSON.parse of its content throws:
\* analyzeChatForVariables rethrows into the handler's catch
AnalyzeFail(i, why) ==
  /\ tasks[i].pc = "a_complete"
  /\ tasks' = [tasks EXCEPT ![i] = TeardownError(@, why)]
  /\ UNCHANGED <<sockets, sessions, messages, chatVars, settings, sheetRows, now, nextId>>
  /\ UNCHANGED <<files, pdfContent, migrations, SequelizeMeta, applied>>

\* the structured response is parsed, missing headers are added and the
\* first ChatVariable.create is built and issued
AnalyzeParsed(i, obj) ==
  /\ tasks[i].pc = "a_complete"
  /\ LET ev == AddMissingHeaders(tasks[i].headers, obj)
     IN IF ev = <<>>
          THEN /\ tasks' = [tasks EXCEPT ![i].pc = "w_settings", ![i].ev = ev]
               /\ UNCHANGED now
          ELSE \E ts \in ClockReads :
                 /\ now' = ts
                 /\ tasks' = [tasks EXCEPT ![i].pc = "a_save", ![i].ev = ev,
                                           ![i].idx = 1, ![i].ts = ts]
  /\ UNCHANGED <<sockets, sessions, messages, chatVars, settings, sheetRows, nextId>>
  /\ UNCHANGED <<files, pdfContent, migrations, SequelizeMeta, applied>>

\* a ChatVariable row is inserted; the next create is issued, or
\* analyzeChatForVariables returns and writeVariablesToSpreadsheet starts
AnalyzeSave(i) ==
  /\ tasks[i].pc = "a_save"
  /\ LET t == tasks[i]
         e == t.ev[t.idx]
     IN /\ chatVars' = Append(chatVars,
                         [sessionId |-> t.sid, variableName |-> e.k,
                          variableValue |-> StringOf(e.v), timestamp |-> t.ts, by |-> i])
        /\ IF t.idx < Len(t.ev)
             THEN \E ts \in ClockReads :
                    /\ now' = ts
                    /\ tasks' = [tasks EXCEPT ![i].idx = t.idx + 1, ![i].ts = ts]
             ELSE /\ tasks' = [tasks EXCEPT ![i].pc = "w_settings"]
                  /\ UNCHANGED now
  /\ UNCHANGED <<sockets, sessions, messages, settings, sheetRows, nextId>>
  /\ UNCHANGED <<files, pdfContent, migrations, SequelizeMeta, applied>>

\* ChatVariable.create fails: analyzeChatForVariables rethrows
AnalyzeSaveFail(i) ==
  /\ tasks[i].pc = "a_save"
  /\ tasks' = [tasks EXCEPT ![i] = TeardownError(@, "db")]
  /\ UNCHANGED <<sockets, sessions, messages, chatVars, settings, sheetRows, now, nextId>>
  /\ UNCHANGED <<files, pdfContent, migrations, SequelizeMeta, applied>>

\* a teardown that goes from the export to ChatSession.destroy
ExportSettingsThenSession(i) ==
  /\ tasks[i].pc = "w_settings"
  /\ tasks' = [tasks EXCEPT ![i].pc = "d_session"]
  /\ UNCHANGED <<sockets, sessions, messages, chatVars, settings, sheetRows, now, nextId>>
  /\ UNCHANGED <<files, pdfContent, migrations, SequelizeMeta, applied>>

\* an exporter that goes on to read the records whether or not a target is set
ExportSettingsUnguarded(i) ==
  /\ tasks[i].pc = "w_settings"
  /\ tasks' = [tasks EXCEPT ![i] = [tasks[i] EXCEPT !.pc = "w_vars", !.gs = settings]]
  /\ UNCHANGED <<sockets, sessions, messages, chatVars, settings, sheetRows, now, nextId>>
  /\ UNCHANGED <<files, pdfContent, migrations, SequelizeMeta, applied>>

\* writeVariablesToSpreadsheet: the settings arrive; without a target it
\* returns and Message.destroy is issued, else ChatVariable.findAll is issued
ExportSettings(i) ==
  /\ tasks[i].pc = "w_settings"
  /\ LET t == tasks[i]
     IN tasks' = [tasks EXCEPT ![i] =
          IF ~settings.exists \/ settings.targetSpreadsheetId = NULL
            THEN [t EXCEPT !.pc = "d_msgs"]
            ELSE [t EXCEPT !.pc = "w_vars", !.gs = settings]]
  /\ UNCHANGED <<sockets, sessions, messages, chatVars, settings, sheetRows, now, nextId>>
  /\ UNCHANGED <<files, pdfContent, migrations, SequelizeMeta, applied>>

\* an exporter without the early return on an empty record list
ExportVariablesAlways(i) ==
  /\ tasks[i].pc = "w_vars"
  /\ \E variables \in FindAllVariables(chatVars, tasks[i].sid) :
       LET t == tasks[i]
       IN tasks' = [tasks EXCEPT ![i] =
            [t EXCEPT !.pc = "w_append",
                      !.row = RowData(t.gs.extractionHeaders, variables)]]
  /\ UNCHANGED <<sockets, sessions, messages, chatVars, settings, sheetRows, now, nextId>>
  /\ UNCHANGED <<files, pdfContent, migrations, SequelizeMeta, applied>>

\* the variables arrive: none, return; else the row is formed in header
\* order and the append to the target sheet is issued
ExportVariables(i) ==
  /\ tasks[i].pc = "w_vars"
  /\ \E variables \in FindAllVariables(chatVars, tasks[i].sid) :
       LET t == tasks[i]
       IN tasks' = [tasks EXCEPT ![i] =
            IF variables = <<>>
              THEN [t EXCEPT !.pc = "d_msgs"]
              ELSE [t EXCEPT !.pc = "w_append",
                             !.row = RowData(t.gs.extractionHeaders, variables)]]
  /\ UNCHANGED <<sockets, sessions, messages, chatVars, settings, sheetRows, now, nextId>>
  /\ UNCHANGED <<files, pdfContent, migrations, SequelizeMeta, applied>>

\* an exporter whose append failure reaches the teardown's catch block
ExportAppendThrows(i, ok) ==
  /\ tasks[i].pc = "w_append"
  /\ sheetRows' = IF ok THEN Append(sheetRows, [sessionId |-> tasks[i].sid,
                                                 row |-> tasks[i].row, by |-> i])
                        ELSE sheetRows
  /\ tasks' = [tasks EXCEPT ![i] = IF ok THEN [@ EXCEPT !.pc = "d_msgs"]
                                         ELSE TeardownError(@, "export")]
  /\ UNCHANGED <<sockets, sessions, messages, chatVars, settings, now, nextId>>
  /\ UNCHANGED <<files, pdfContent, migrations, SequelizeMeta, applied>>

\* the append settles (a failure is caught and logged): Message.destroy is issued
ExportAppend(i, ok) ==
  /\ tasks[i].pc = "w_append"
  /\ sheetRows' = IF ok THEN Append(sheetRows, [sessionId |-> tasks[i].sid,
                                                 row |-> tasks[i].row, by |-> i])
                        ELSE sheetRows
  /\ tasks' = [tasks EXCEPT ![i].pc = "d_msgs",
                            ![i].failed = IF ok THEN @ ELSE "export"]
  /\ UNCHANGED <<sockets, sessions, messages, chatVars, settings, now, nextId>>
  /\ UNCHANGED <<files, pdfContent, migrations, SequelizeMeta, applied>>

\* Message.destroy lands; ChatSession.destroy is issued
DestroyMessagesStep(i) ==
  /\ tasks[i].pc = "d_msgs"
  /\ messages' = DestroyMessages(messages, tasks[i].sid)
  /\ tasks' = [tasks EXCEPT ![i].pc = "d_session"]
  /\ UNCHANGED <<sockets, sessions, chatVars, settings, sheetRows, now, nextId>>
  /\ UNCHANGED <<files, pdfContent, migrations, SequelizeMeta, applied>>

\* ChatSession.destroy lands; the handler reports success
DestroySessionStep(i) ==
  /\ tasks[i].pc = "d_session"
  /\ sessions' = sessions \ {tasks[i].sid}
  /\ messages' = OrphanMessages(messages, tasks[i].sid)
  /\ tasks' = [tasks EXCEPT ![i] = TeardownDone(@)]
  /\ UNCHANGED <<sockets, chatVars, settings, sheetRows, now, nextId>>
  /\ UNCHANGED <<files, pdfContent, migrations, SequelizeMeta, applied>>

----------------------------------------------------------------------------
(* The chat server: one connection, its handlers and the HTTP delete *)

Next ==
  \/ \E s \in SocketIds : Connect(s)
  \/ \E s \in SocketIds : StartChat(s)
  \/ \E s \in SocketIds, text \in UserTexts : Message(s, text)
  \/ \E s \in SocketIds : DeleteSession(s, s)
  \/ \E s \in SocketIds : Disconnect(s)
  \/ \E sid \in SocketIds : HttpDelete(sid)
  \/ \E i \in TaskIds : StartChatCreate(i)
  \/ \E i \in TaskIds : MsgFind(i)
  \/ \E i \in TaskIds : MsgUser(i)
  \/ \E i \in TaskIds : MsgHistory(i)
  \/ \E i \in TaskIds : MsgSettings(i)
  \/ \E i \in TaskIds : MsgSheet(i)
  \/ \E i \in TaskIds : MsgUrl(i)
  \/ \E i \in TaskIds : MsgCompleteFail(i)
  \/ \E i \in TaskIds : MsgComplete(i)
  \/ \E i \in TaskIds : MsgAssistant(i)
  \/ \E i \in TaskIds : AnalyzeSettings(i)
  \/ \E i \in TaskIds : AnalyzeMessages(i)
  \/ \E i \in TaskIds, why \in {"completion", "parse"} : AnalyzeFail(i, why)
  \/ \E i \in TaskIds, obj \in ExtractedObjects : AnalyzeParsed(i, obj)
  \/ \E i \in TaskIds : AnalyzeSave(i)
  \/ \E i \in TaskIds : AnalyzeSaveFail(i)
  \/ \E i \in TaskIds : ExportSettings(i)
  \/ \E i \in TaskIds : ExportVariables(i)
  \/ \E i \in TaskIds, ok \in BOOLEAN : ExportAppend(i, ok)
  \/ \E i \in TaskIds : DestroyMessagesStep(i)
  \/ \E i \in TaskIds : DestroySessionStep(i)

Spec == Init /\ [][Next]_vars

----------------------------------------------------------------------------
(* Chat turns on their own, one at a time, with a knowledge base of        *)
(* several references                                                      *)

\* GlobalSettings rows: two sheets and a page, two sheets, a page
KnowledgeSettings ==
  { [DefaultSettings EXCEPT !.knowledgeBaseSheetIds = <<"k1", "k2">>,
                            !.knowledgeBaseUrls = <<"w1">>],
    [DefaultSettings EXCEPT !.knowledgeBaseSheetIds = <<"k1", "k2">>],
    [DefaultSettings EXCEPT !.knowledgeBaseUrls = <<"w1">>] }

InitKnowledge ==
  /\ sockets = [s \in SocketIds |-> "new"]
  /\ sessions = {}
  /\ messages = <<>>
  /\ chatVars = <<>>
  /\ settings \in KnowledgeSettings
  /\ sheetRows = <<>>
  /\ tasks = <<>>
  /\ now = 0
  /\ nextId = 1
  /\ files = NoFiles
  /\ pdfContent = NoPdfContent
  /\ migrations = ShippedMigrations
  /\ SequelizeMeta = {}
  /\ applied = NoneApplied

NextKnowledge ==
  \/ \E s \in SocketIds : Connect(s)
  \/ Quiet /\ \E s \in SocketIds : StartChat(s)
  \/ Quiet /\ \E s \in SocketIds, text \in UserTexts : Message(s, text)
  \/ \E i \in TaskIds : StartChatCreate(i)
  \/ \E i \in TaskIds : MsgFind(i)
  \/ \E i \in TaskIds : MsgUser(i)
  \/ \E i \in TaskIds : MsgHistory(i)
  \/ \E i \in TaskIds : MsgSettings(i)
  \/ \E i \in TaskIds : MsgSheet(i)
  \/ \E i \in TaskIds : MsgUrl(i)
  \/ \E i \in TaskIds : MsgCompleteFail(i)
  \/ \E i \in TaskIds : MsgComplete(i)
  \/ \E i \in TaskIds : MsgAssistant(i)

SpecKnowledge == InitKnowledge /\ [][NextKnowledge]_vars

----------------------------------------------------------------------------
(* Session teardown on its own, one request at a time: extraction and     *)
(* export under the header and target configurations of the               *)
(* administrative routes, with structured responses that reorder the       *)
(* fields, leave fields out and add a key                                  *)

\* GlobalSettings rows: fields and target, fields without target, target
\* without fields
TeardownSettings ==
  { [DefaultSettings EXCEPT !.extractionHeaders = <<"name", "email">>,
                            !.targetSpreadsheetId = "sheetT"],
    [DefaultSettings EXCEPT !.extractionHeaders = <<"name", "email">>],
    [DefaultSettings EXCEPT !.targetSpreadsheetId = "sheetT"] }

\* structured responses of the completion backend, parsed
TeardownObjects ==
  { <<[k |-> "email", v |-> Str("a@x.com")], [k |-> "name", v |-> Str("Ann")]>>,
    <<[k |-> "phone", v |-> Num(5)]>> }

InitTeardown ==
  /\ sockets = [s \in SocketIds |-> "new"]
  /\ sessions = {}
  /\ messages = <<>>
  /\ chatVars = <<>>
  /\ settings \in TeardownSettings
  /\ sheetRows = <<>>
  /\ tasks = <<>>
  /\ now = 0
  /\ nextId = 1
  /\ files = NoFiles
  /\ pdfContent = NoPdfContent
  /\ migrations = ShippedMigrations
  /\ SequelizeMeta = {}
  /\ applied = NoneApplied

NextTeardown ==
  \/ \E s \in SocketIds : Connect(s)
  \/ \E s \in SocketIds : Quiet /\ StartChat(s)
  \/ \E s \in SocketIds : Quiet /\ DeleteSession(s, s)
  \/ \E s \in SocketIds : Quiet /\ Disconnect(s)
  \/ \E sid \in SocketIds : Quiet /\ HttpDelete(sid)
  \/ \E i \in TaskIds : StartChatCreate(i)
  \/ \E i \in TaskIds : AnalyzeSettings(i)
  \/ \E i \in TaskIds : AnalyzeMessages(i)
  \/ \E i \in TaskIds, why \in {"completion", "parse"} : AnalyzeFail(i, why)
  \/ \E i \in TaskIds, obj \in TeardownObjects : AnalyzeParsed(i, obj)
  \/ \E i \in TaskIds : AnalyzeSave(i)
  \/ \E i \in TaskIds : AnalyzeSaveFail(i)
  \/ \E i \in TaskIds : ExportSettings(i)
  \/ \E i \in TaskIds : ExportVariables(i)
  \/ \E i \in TaskIds, ok \in BOOLEAN : ExportAppend(i, ok)
  \/ \E i \in TaskIds : DestroyMessagesStep(i)
  \/ \E i \in TaskIds : DestroySessionStep(i)

SpecTeardown == InitTeardown /\ [][NextTeardown]_vars

----------------------------------------------------------------------------
(* Two connections, each with its own session, one request at a time       *)

Connections == {"s1", "s2"}

InitSessions ==
  /\ sockets = [s \in Connections |-> "new"]
  /\ sessions = {}
  /\ messages = <<>>
  /\ chatVars = <<>>
  /\ settings = DefaultSettings
  /\ sheetRows = <<>>
  /\ tasks = <<>>
  /\ now = 0
  /\ nextId = 1
  /\ files = NoFiles
  /\ pdfContent = NoPdfContent
  /\ migrations = ShippedMigrations
  /\ SequelizeMeta = {}
  /\ applied = NoneApplied

\* data.sessionId of a deleteSession event: left out, or any key
NextSessions ==
  \/ \E s \in Connections : Connect(s)
  \/ \E s \in Connections : Quiet /\ StartChat(s)
  \/ \E s \in Connections, text \in UserTexts : Quiet /\ Message(s, text)
  \/ \E s \in Connections, sid \in Connections : Quiet /\ DeleteSession(s, sid)
  \/ \E s \in Connections : Quiet /\ Disconnect(s)
  \/ \E i \in TaskIds : StartChatCreate(i)
  \/ \E i \in TaskIds : MsgFind(i)
  \/ \E i \in TaskIds : MsgUser(i)
  \/ \E i \in TaskIds : MsgHistory(i)
  \/ \E i \in TaskIds : MsgSettings(i)
  \/ \E i \in TaskIds : MsgCompleteFail(i)
  \/ \E i \in TaskIds : MsgComplete(i)
  \/ \E i \in TaskIds : MsgAssistant(i)
  \/ \E i \in TaskIds : AnalyzeSettings(i)
  \/ \E i \in TaskIds : ExportSettings(i)
  \/ \E i \in TaskIds : DestroyMessagesStep(i)
  \/ \E i \in TaskIds : DestroySessionStep(i)

SpecSessions == InitSessions /\ [][NextSessions]_vars

----------------------------------------------------------------------------
(* The knowledge-base routes: POST /api/knowledge-base and                 *)
(* POST /api/knowledge-base-url                                            *)

KbKinds == {"kbSheet", "kbUrl"}
KbActions == {"add", "remove"}

\* sheet ids and URLs of the requests
KbRefs(kind) == IF kind = "kbSheet" THEN {"k1", "k2"} ELSE {"w1", "w2"}

\* the list of the route in a GlobalSettings instance
KbList(gs, kind) ==
  IF kind = "kbSheet" THEN gs.knowledgeBaseSheetIds ELSE gs.knowledgeBaseUrls

SetKbList(gs, kind, list) ==
  IF kind = "kbSheet" THEN [gs EXCEPT !.knowledgeBaseSheetIds = list]
                      ELSE [gs EXCEPT !.knowledgeBaseUrls = list]

\* Array.prototype.includes
Includes(list, x) == \E k \in DOMAIN list : list[k] = x

\* 'add': append unless included; 'remove': filter(id => id !== ref)
KbApply(list, act, ref) ==
  IF act = "add" THEN (IF Includes(list, ref) THEN list ELSE Append(list, ref))
  ELSE SelectSeq(list, LAMBDA id : id # ref)

\* the request arrives: GlobalSettings.findByPk(1) is issued
KbPost(kind, ref, act) ==
  /\ Admits
  /\ tasks' = Append(tasks, [NewTask(kind, "http", NULL, ref) EXCEPT !.pc = "k_find", !.act = act])
  /\ UNCHANGED <<sockets, sessions, messages, chatVars, settings, sheetRows, now, nextId>>
  /\ UNCHANGED <<files, pdfContent, migrations, SequelizeMeta, applied>>

\* the row arrives as an instance of its own: none, 404; else the access
\* check of the reference is issued
KbFind(i) ==
  /\ tasks[i].pc = "k_find"
  /\ LET t == tasks[i]
     IN tasks' = [tasks EXCEPT ![i] =
          IF ~settings.exists
            THEN Return([t EXCEPT !.failed = "nosettings",
                                  !.out = Emit(t, "http404", "Global settings not found")])
            ELSE [t EXCEPT !.pc = "k_validate", !.gs = settings, !.prev = settings]]
  /\ UNCHANGED <<sockets, sessions, messages, chatVars, settings, sheetRows, now, nextId>>
  /\ UNCHANGED <<files, pdfContent, migrations, SequelizeMeta, applied>>

\* the access check settles: failed, 400; else the list of the instance is
\* changed and save() is issued
KbValidate(i, ok) ==
  /\ tasks[i].pc = "k_validate"
  /\ LET t == tasks[i]
     IN tasks' = [tasks EXCEPT ![i] =
          IF ~ok
            THEN Return([t EXCEPT !.failed = "invalid",
                                  !.out = Emit(t, "http400", "Invalid or inaccessible")])
            ELSE [t EXCEPT !.pc = "k_save",
                           !.gs = SetKbList(t.gs, t.kind,
                                            KbApply(KbList(t.gs, t.kind), t.act, t.text))]]
  /\ UNCHANGED <<sockets, sessions, messages, chatVars, settings, sheetRows, now, nextId>>
  /\ UNCHANGED <<files, pdfContent, migrations, SequelizeMeta, applied>>

\* save() lands: an UPDATE of the changed column with the list of the
\* instance (none when the list is as it was read); the row may be gone
KbSave(i, ok) ==
  /\ tasks[i].pc = "k_save"
  /\ LET t == tasks[i]
         list == KbList(t.gs, t.kind)
     IN /\ settings' = IF ok /\ settings.exists /\ list # KbList(t.prev, t.kind)
                         THEN SetKbList(settings, t.kind, list)
                         ELSE settings
        /\ tasks' = [tasks EXCEPT ![i] =
             IF ok THEN Return([t EXCEPT !.out = Emit(t, "http200", "success")])
                   ELSE Return([t EXCEPT !.failed = "db",
                                         !.out = Emit(t, "http500", "Server error")])]
  /\ UNCHANGED <<sockets, sessions, messages, chatVars, sheetRows, now, nextId>>
  /\ UNCHANGED <<files, pdfContent, migrations, SequelizeMeta, applied>>

InitAdmin ==
  /\ sockets = [s \in SocketIds |-> "new"]
  /\ sessions = {}
  /\ messages = <<>>
  /\ chatVars = <<>>
  /\ settings \in {NoSettings, DefaultSettings,
                   [DefaultSettings EXCEPT !.knowledgeBaseSheetIds = <<"k1">>,
                                           !.knowledgeBaseUrls = <<"w1">>]}
  /\ sheetRows = <<>>
  /\ tasks = <<>>
  /\ now = 0
  /\ nextId = 1
  /\ files = NoFiles
  /\ pdfContent = NoPdfContent
  /\ migrations = ShippedMigrations
  /\ SequelizeMeta = {}
  /\ applied = NoneApplied

NextAdmin ==
  \/ \E kind \in KbKinds, act \in KbActions : \E ref \in KbRefs(kind) : KbPost(kind, ref, act)
  \/ \E i \in TaskIds : KbFind(i)
  \/ \E i \in TaskIds, ok \in BOOLEAN : KbValidate(i, ok)
  \/ \E i \in TaskIds, ok \in BOOLEAN : KbSave(i, ok)

SpecAdmin == InitAdmin /\ [][NextAdmin]_vars

----------------------------------------------------------------------------
(* scanAndProcessPdfs, one scan at a time, and the files coming and going  *)

\* the file the loop is at, and its path
ScanFile(t) == t.row[t.idx]
ScanPath(t) == PathJoin(PdfDir, ScanFile(t))

\* after the loop: paths whose file was not listed are dropped; a shorter
\* list is saved, else the scan returns
ScanPrune(t) ==
  LET paths == t.gs.knowledgeBasePdfPaths
      validPaths == SelectSeq(paths, LAMBDA q : Includes(t.row, Basename(q)))
  IN IF Len(validPaths) # Len(paths)
       THEN [t EXCEPT !.pc = "s_prune", !.gs.knowledgeBasePdfPaths = validPaths]
       ELSE Return(t)

\* the end of an iteration of the loop
ScanNext(t) ==
  IF t.idx < Len(t.row) THEN [t EXCEPT !.pc = "s_stat", !.idx = t.idx + 1]
  ELSE ScanPrune(t)

\* the path is added to the list of the instance and save() is issued,
\* unless the list includes it
ScanAdd(t) ==
  IF Includes(t.gs.knowledgeBasePdfPaths, ScanPath(t))
    THEN ScanNext(t)
    ELSE [t EXCEPT !.pc = "s_add",
                   !.gs.knowledgeBasePdfPaths = Append(@, ScanPath(t))]

\* a file is written, touched or deleted while no scan runs
FileChange(f, m) ==
  /\ Quiet
  /\ files[f] # m
  /\ files' = [files EXCEPT ![f] = m]
  /\ UNCHANGED <<sockets, sessions, messages, chatVars, settings, sheetRows, tasks, now, nextId>>
  /\ UNCHANGED <<pdfContent, migrations, SequelizeMeta, applied>>

\* scanAndProcessPdfs is called: mkdir and readdir are issued
Scan ==
  /\ Quiet /\ Admits
  /\ tasks' = Append(tasks, [NewTask("scan", "fs", NULL, "") EXCEPT !.pc = "s_readdir"])
  /\ UNCHANGED <<sockets, sessions, messages, chatVars, settings, sheetRows, now, nextId>>
  /\ UNCHANGED <<files, pdfContent, migrations, SequelizeMeta, applied>>

\* the directory is listed and filtered; GlobalSettings.findByPk is issued
ScanReaddir(i) ==
  /\ tasks[i].pc = "s_readdir"
  /\ tasks' = [tasks EXCEPT ![i].pc = "s_settings",
                            ![i].row = SelectSeq(Readdir(files), IsPdfFile)]
  /\ UNCHANGED <<sockets, sessions, messages, chatVars, settings, sheetRows, now, nextId>>
  /\ UNCHANGED <<files, pdfContent, migrations, SequelizeMeta, applied>>

\* the settings arrive: none, throw; else the loop starts with fs.stat
ScanSettings(i) ==
  /\ tasks[i].pc = "s_settings"
  /\ LET t == tasks[i]
     IN tasks' = [tasks EXCEPT ![i] =
          IF ~settings.exists THEN Return([t EXCEPT !.failed = "nosettings"])
          ELSE ScanNext([t EXCEPT !.gs = settings, !.idx = 0])]
  /\ UNCHANGED <<sockets, sessions, messages, chatVars, settings, sheetRows, now, nextId>>
  /\ UNCHANGED <<files, pdfContent, migrations, SequelizeMeta, applied>>

\* fs.stat returns; PdfContent.findByPk is issued
ScanStat(i) ==
  /\ tasks[i].pc = "s_stat"
  /\ tasks' = [tasks EXCEPT ![i].pc = "s_cached", ![i].ts = files[ScanFile(tasks[i])]]
  /\ UNCHANGED <<sockets, sessions, messages, chatVars, settings, sheetRows, now, nextId>>
  /\ UNCHANGED <<files, pdfContent, migrations, SequelizeMeta, applied>>

\* a scan that processes every file it lists
ScanCachedAlways(i) ==
  /\ tasks[i].pc = "s_cached"
  /\ tasks' = [tasks EXCEPT ![i].pc = "s_process"]
  /\ UNCHANGED <<sockets, sessions, messages, chatVars, settings, sheetRows, now, nextId>>
  /\ UNCHANGED <<files, pdfContent, migrations, SequelizeMeta, applied>>

\* the cached row arrives: missing or older than the file, processPdfFile
\* is called; else the loop goes on
ScanCached(i) ==
  /\ tasks[i].pc = "s_cached"
  /\ LET t == tasks[i]
         existingContent == pdfContent[ScanPath(t)]
     IN tasks' = [tasks EXCEPT ![i] =
          IF existingContent.lastModified = 0 \/ existingContent.lastModified < t.ts
            THEN [t EXCEPT !.pc = "s_process"]
            ELSE ScanAdd(t)]
  /\ UNCHANGED <<sockets, sessions, messages, chatVars, settings, sheetRows, now, nextId>>
  /\ UNCHANGED <<files, pdfContent, migrations, SequelizeMeta, applied>>

\* processPdfFile: the file is read, parsed and stat-ed and its row is
\* upserted; a file that cannot be parsed ends the scan
ScanProcess(i, ok) ==
  /\ tasks[i].pc = "s_process"
  /\ LET t == tasks[i]
         mtime == files[ScanFile(t)]
     IN /\ pdfContent' = IF ok THEN [pdfContent EXCEPT ![ScanPath(t)] =
                                       [lastModified |-> mtime, content |-> mtime]]
                          ELSE pdfContent
        /\ tasks' = [tasks EXCEPT ![i] =
             IF ok THEN ScanAdd([t EXCEPT !.reqs = @ + 1])
             ELSE Return([t EXCEPT !.failed = "pdf"])]
  /\ UNCHANGED <<sockets, sessions, messages, chatVars, settings, sheetRows, now, nextId>>
  /\ UNCHANGED <<files, migrations, SequelizeMeta, applied>>

\* save() of the list with the added path lands
ScanSaveAdd(i) ==
  /\ tasks[i].pc = "s_add"
  /\ settings' = [settings EXCEPT
                    !.knowledgeBasePdfPaths = tasks[i].gs.knowledgeBasePdfPaths]
  /\ tasks' = [tasks EXCEPT ![i] = ScanNext(@)]
  /\ UNCHANGED <<sockets, sessions, messages, chatVars, sheetRows, now, nextId>>
  /\ UNCHANGED <<files, pdfContent, migrations, SequelizeMeta, applied>>

\* save() of the pruned list lands; the scan returns
ScanSavePrune(i) ==
  /\ tasks[i].pc = "s_prune"
  /\ settings' = [settings EXCEPT
                    !.knowledgeBasePdfPaths = tasks[i].gs.knowledgeBasePdfPaths]
  /\ tasks' = [tasks EXCEPT ![i] = Return(@)]
  /\ UNCHANGED <<sockets, sessions, messages, chatVars, sheetRows, now, nextId>>
  /\ UNCHANGED <<files, pdfContent, migrations, SequelizeMeta, applied>>

InitScan ==
  /\ sockets = [s \in SocketIds |-> "new"]
  /\ sessions = {}
  /\ messages = <<>>
  /\ chatVars = <<>>
  /\ settings \in {NoSettings, DefaultSettings}
  /\ sheetRows = <<>>
  /\ tasks = <<>>
  /\ now = 0
  /\ nextId = 1
  /\ files = NoFiles
  /\ pdfContent = NoPdfContent
  /\ migrations = ShippedMigrations
  /\ SequelizeMeta = {}
  /\ applied = NoneApplied

NextScan ==
  \/ \E f \in FileNames, m \in 0..MaxMtime : FileChange(f, m)
  \/ Scan
  \/ \E i \in TaskIds : ScanReaddir(i)
  \/ \E i \in TaskIds : ScanSettings(i)
  \/ \E i \in TaskIds : ScanStat(i)
  \/ \E i \in TaskIds : ScanCached(i)
  \/ \E i \in TaskIds, ok \in BOOLEAN : ScanProcess(i, ok)
  \/ \E i \in TaskIds : ScanSaveAdd(i)
  \/ \E i \in TaskIds : ScanSavePrune(i)

SpecScan == InitScan /\ [][NextScan]_vars

----------------------------------------------------------------------------
(* Properties *)

IsTurn(i) == tasks[i].kind = "message"
IsTeardown(i) == tasks[i].kind \in TeardownKinds

\* the turn has persisted its user Message and not yet its assistant Message
BetweenPersists(i) ==
  IsTurn(i) /\ tasks[i].pc \in {"m_hist", "m_settings", "m_sheet", "m_url", "m_complete", "m_asst"}

\* the turn ended with its 'response' emitted
Completed(i) ==
  /\ IsTurn(i) /\ tasks[i].pc = "done" /\ tasks[i].failed = ""
  /\ tasks[i].out # <<>> /\ tasks[i].out[Len(tasks[i].out)].ev = "response"

MessagesBy(i, role) == {k \in DOMAIN messages : messages[k].by = i /\ messages[k].role = role}

\* C1: for every session key at most one turn is in flight: no two turns of
\* one session are both between persisting their user Message and persisting
\* their assistant Message.
C1_OneTurnInFlight ==
  \A i, j \in TaskIds :
    (i < j /\ tasks[i].sid = tasks[j].sid /\ BetweenPersists(i)) => ~BetweenPersists(j)

\* C2: two message events on one session, neither followed by a teardown,
\* that both ran to their response leave two assistant Messages, and the
\* message list the second sent to the completion backend contains the
\* first's persisted assistant Message.
C2_BackToBackTurns ==
  \A i, j \in TaskIds :
    (/\ i < j /\ tasks[i].sid = tasks[j].sid /\ Completed(i) /\ Completed(j)
     /\ \A k \in TaskIds : ~IsTeardown(k)) =>
      /\ Cardinality(MessagesBy(i, "assistant") \cup MessagesBy(j, "assistant")) = 2
      /\ \E k \in DOMAIN tasks[j].fm :
           tasks[j].fm[k] = [role |-> "assistant", content |-> LimitLength(tasks[i].resp)]

WroteVariables(i) == \E k \in DOMAIN chatVars : chatVars[k].by = i
ExportedRow(i) == \E k \in DOMAIN sheetRows : sheetRows[k].by = i

\* the startChat created the session
Started(k) == tasks[k].kind = "startChat" /\ tasks[k].pc = "done" /\ tasks[k].failed = ""

\* C3: two teardowns of one session (started once, before both) make one
\* extraction/export cycle between them: one extraction request, one set of
\* ChatVariable records, at most one exported row.
C3_TeardownTwiceOneCycle ==
  \A i, j \in TaskIds :
    (/\ i < j /\ IsTeardown(i) /\ IsTeardown(j) /\ tasks[i].sid = tasks[j].sid
     /\ \E k \in TaskIds : k < i /\ Started(k) /\ tasks[k].sid = tasks[i].sid
     /\ \A k \in TaskIds : tasks[k].kind = "startChat" => k < i) =>
      /\ tasks[i].reqs + tasks[j].reqs <= 1
      /\ ~(WroteVariables(i) /\ WroteVariables(j))
      /\ ~(ExportedRow(i) /\ ExportedRow(j))

\* C4: every teardown, whatever fails inside its extraction or export, ends
\* with the session and all its Messages removed: at the step a teardown
\* handler returns, the ChatSession row and the session's Message rows are gone.
C4_TeardownFreesSession ==
  [][\A i \in TaskIds :
       (IsTeardown(i) /\ tasks[i].pc # "done" /\ tasks'[i].pc = "done") =>
         /\ tasks[i].sid \notin sessions'
         /\ MessagesOf(messages', tasks[i].sid) = <<>>]_vars

CompletionFailed(i) == IsTurn(i) /\ tasks[i].failed = "completion"

\* C5: a turn whose completion call failed has returned, the last thing its
\* caller received is 'error', no 'response' was emitted, no reply is held
\* and no assistant Message of that turn is stored.
C5_CompletionFailureSurfaces ==
  \A i \in TaskIds : CompletionFailed(i) =>
    /\ tasks[i].pc = "done"
    /\ tasks[i].out # <<>> /\ tasks[i].out[Len(tasks[i].out)].ev = "error"
    /\ \A k \in DOMAIN tasks[i].out : tasks[i].out[k].ev # "response"
    /\ tasks[i].resp = ""
    /\ MessagesBy(i, "assistant") = {}

\* a turn's completion failed, and the next message event on the same
\* session ran a full turn: reply stored and 'response' emitted
C5_LaterTurnRuns ==
  \E i, j \in TaskIds :
    /\ i < j /\ CompletionFailed(i) /\ tasks[i].sid = tasks[j].sid
    /\ Completed(j) /\ MessagesBy(j, "assistant") # {}

\* C6: every stored Message belongs to a session that exists in the
\* ChatSession table.
C6_MessagesHaveSession ==
  \A k \in DOMAIN messages : messages[k].sessionId \in sessions

\* the reply as the turn stores it: at most 500 characters, then the marker
Cut500(raw) == IF Len(raw) > 500 THEN SubSeq(raw, 1, 500) \o "..." ELSE raw

C8_HistoryInAppendOrder ==
  [][\A i \in TaskIds :
       (tasks[i].pc = "m_hist" /\ tasks'[i].pc = "m_settings") =>
         LET rows == MessagesOf(messages, tasks[i].sid)
         IN tasks'[i].hist = [k \in 1..Len(rows) |-> rows[k].id]]_vars

\* the extraction of the teardown has returned its mapping
Extracted(i) ==
  /\ IsTeardown(i) /\ tasks[i].reqs > 0 /\ tasks[i].pc # "a_complete"
  /\ tasks[i].failed \notin {"completion", "parse"}

\* C9: the mapping the extraction returns holds, for every configured field
\* name, a value of the structured response or the empty string.
C9_EveryFieldInMapping ==
  \A i \in TaskIds : Extracted(i) =>
    \A h \in Range(settings.extractionHeaders) :
      GetProperty(tasks[i].ev, h).t \in {"str", "num"}

NoHeaders == ~settings.exists \/ settings.extractionHeaders = <<>>

\* C10: with an empty extraction field list no teardown issues an extraction
\* request, the mapping of every teardown is empty and no ChatVariable is written.
C10_NoFieldsNoExtraction ==
  NoHeaders =>
    /\ chatVars = <<>>
    /\ \A i \in TaskIds : tasks[i].reqs = 0 /\ tasks[i].ev = <<>>

\* with an empty field list a teardown went through extraction and export
\* and returned
C10_TeardownWithoutFields ==
  \E i \in TaskIds :
    NoHeaders /\ settings.exists /\ IsTeardown(i) /\ tasks[i].pc = "done" /\ tasks[i].failed = ""

\* the records of session sid in the ChatVariable table
RecordsOf(sid) == {k \in DOMAIN chatVars : chatVars[k].sessionId = sid}

\* C11: whenever an export reads the ChatVariable records of its session,
\* the variableName of each of them is one of the configured extraction
\* headers.
C11_ExportedNamesAreFields ==
  \A i \in TaskIds : tasks[i].pc = "w_vars" =>
    \A k \in RecordsOf(tasks[i].sid) :
      chatVars[k].variableName \in Range(settings.extractionHeaders)

\* the values recorded for field name in session sid
ValuesOf(sid, name) ==
  {chatVars[k].variableValue : k \in {r \in RecordsOf(sid) : chatVars[r].variableName = name}}

\* C12: the row an export forms has one cell per configured extraction
\* header, its h-th cell is a value recorded for the h-th header (the empty
\* string when none is recorded), and the row appended is the row formed.
C12_RowFollowsFields ==
  [][\A i \in TaskIds :
       /\ (tasks[i].pc = "w_vars" /\ tasks'[i].pc = "w_append") =>
            LET hs == settings.extractionHeaders
                row == tasks'[i].row
            IN /\ Len(row) = Len(hs)
               /\ \A h \in 1..Len(hs) :
                    IF ValuesOf(tasks[i].sid, hs[h]) = {} THEN row[h] = ""
                    ELSE row[h] \in ValuesOf(tasks[i].sid, hs[h])
       /\ (tasks[i].pc = "w_append" /\ tasks'[i].pc # "w_append" /\ sheetRows' # sheetRows) =>
            /\ Len(sheetRows') = Len(sheetRows) + 1
            /\ sheetRows'[Len(sheetRows')].row = tasks[i].row]_vars

\* a row in header order was appended for a session whose records were
\* written in another order: the second header's record first
C12_RowAgainstWriteOrder ==
  \E r \in DOMAIN sheetRows :
    LET hs == settings.extractionHeaders
        recs == VariablesOf(chatVars, sheetRows[r].sessionId)
    IN /\ Len(hs) = 2 /\ sheetRows[r].row = <<"Ann", "7">>
       /\ recs # <<>> /\ recs[1].variableName = hs[2]

\* the record of field name in session sid that was written last
LatestOf(sid, name) ==
  LET rs == {r \in RecordsOf(sid) : chatVars[r].variableName = name}
  IN CHOOSE k \in rs : \A r \in rs : r <= k

\* C13: for every configured header with records in the session, the cell
\* an export forms holds the value of the record written last for it.
C13_ExportUsesLatest ==
  [][\A i \in TaskIds :
       (tasks[i].pc = "w_vars" /\ tasks'[i].pc = "w_append") =>
         LET hs == settings.extractionHeaders
         IN \A h \in 1..Len(hs) :
              ValuesOf(tasks[i].sid, hs[h]) # {} =>
                tasks'[i].row[h] = chatVars[LatestOf(tasks[i].sid, hs[h])].variableValue]_vars

RowsBy(i) == {r \in DOMAIN sheetRows : sheetRows[r].by = i}

\* the export of the teardown is over and nothing in the teardown failed
ExportPassed(i) ==
  IsTeardown(i) /\ tasks[i].pc \in {"d_msgs", "d_session", "done"} /\ tasks[i].failed = ""

\* C14 (as stated): with a target spreadsheet configured, every export whose
\* append did not fail has appended exactly one row, also for a session
\* without any ChatVariable record.
C14_EveryExportAppendsRow ==
  \A i \in TaskIds :
    (ExportPassed(i) /\ settings.targetSpreadsheetId # NULL) => Cardinality(RowsBy(i)) = 1

\* C14 (amended): with a target spreadsheet configured, an export that
\* finds no ChatVariable record of the session appends nothing; one that
\* finds records forms a row with the empty string in the cell of every
\* header without a record, and its append, unless it fails, adds that one
\* row; no export appends more than one row.
C14_ExportAppendsRowOfRecords ==
  [][\A i \in TaskIds :
       /\ (tasks[i].pc = "w_vars" /\ tasks'[i].pc # "w_vars") =>
            /\ sheetRows' = sheetRows
            /\ IF RecordsOf(tasks[i].sid) = {} THEN tasks'[i].pc = "d_msgs"
               ELSE /\ tasks'[i].pc = "w_append"
                    /\ \A h \in DOMAIN settings.extractionHeaders :
                         ValuesOf(tasks[i].sid, settings.extractionHeaders[h]) = {}
                           => tasks'[i].row[h] = ""
       /\ (tasks[i].pc = "w_append" /\ tasks'[i].pc # "w_append") =>
            /\ RowsBy(i) = {}
            /\ tasks'[i].failed = "" =>
                 sheetRows' = Append(sheetRows, [sessionId |-> tasks[i].sid,
                                                 row |-> tasks[i].row, by |-> i])
            /\ tasks'[i].failed # "" => sheetRows' = sheetRows]_vars

\* a row was appended whose second cell is empty because the session has
\* no record of the second header
C14_RowWithUnrecordedField ==
  \E r \in DOMAIN sheetRows :
    LET hs == settings.extractionHeaders
    IN /\ Len(hs) = 2 /\ sheetRows[r].row[2] = ""
       /\ RecordsOf(sheetRows[r].sessionId) # {}
       /\ ValuesOf(sheetRows[r].sessionId, hs[2]) = {}

\* C15: without a target spreadsheet the export does nothing: no row is
\* ever appended, and the export step of a teardown goes straight on to the
\* removal of the Messages, leaving the ChatVariable records, the failure
\* mark and the events sent to the caller as they were.
C15_NoTargetNoExport ==
  [][settings.targetSpreadsheetId = NULL =>
       /\ sheetRows' = <<>>
       /\ \A i \in TaskIds :
            (tasks[i].pc = "w_settings" /\ tasks'[i].pc # "w_settings") =>
              /\ tasks'[i].pc = "d_msgs"
              /\ chatVars' = chatVars
              /\ tasks'[i].failed = tasks[i].failed
              /\ tasks'[i].out = tasks[i].out]_vars

\* a teardown got past the export with records of its session stored and no
\* target spreadsheet configured
C15_RecordsButNoTarget ==
  \E i \in TaskIds :
    /\ ExportPassed(i)
    /\ settings.targetSpreadsheetId = NULL
    /\ RecordsOf(tasks[i].sid) # {}

AppendFailed(i) == IsTeardown(i) /\ tasks[i].failed = "export"

\* C16: a failed append does not stop the teardown: the handler goes on to
\* the removal of the Messages with nothing sent to its caller, that step
\* leaves no Message of the session, the next one removes the session, and
\* the handler returns with its success report and no error report.
C16_AppendFailureKeepsTeardown ==
  [][\A i \in TaskIds :
       /\ (tasks[i].pc = "w_append" /\ tasks'[i].failed = "export") =>
            /\ tasks'[i].pc = "d_msgs"
            /\ tasks'[i].out = tasks[i].out
       /\ (AppendFailed(i) /\ tasks[i].pc = "d_msgs" /\ tasks'[i].pc # "d_msgs") =>
            /\ tasks'[i].pc = "d_session"
            /\ MessagesOf(messages', tasks[i].sid) = <<>>
       /\ (AppendFailed(i) /\ tasks[i].pc = "d_session" /\ tasks'[i].pc # "d_session") =>
            LET out == tasks'[i].out
            IN /\ tasks'[i].pc = "done"
               /\ tasks[i].sid \notin sessions'
               /\ \A k \in DOMAIN out : out[k].ev \notin {"error", "http500"}
               /\ tasks[i].kind = "deleteSession" =>
                    out # <<>> /\ out[Len(out)].ev = "sessionDeleted"
               /\ tasks[i].kind = "httpDelete" =>
                    out # <<>> /\ out[Len(out)].ev = "http200"]_vars

\* the teardown of a session that held a completed exchange returned after
\* its append had failed, and the session and its Messages are gone
C16_TornDownAfterFailedAppend ==
  \E i, j \in TaskIds :
    /\ AppendFailed(i) /\ tasks[i].pc = "done"
    /\ Completed(j) /\ tasks[j].sid = tasks[i].sid
    /\ tasks[i].sid \notin sessions
    /\ MessagesOf(messages, tasks[i].sid) = <<>>

\* the text the turn received from the completion backend is stored as
\* content and was emitted as msg
PersistedAndEmitted(i, content, msg) ==
  LET raw == tasks[i].resp
  IN IF Len(raw) > 500
       THEN /\ Len(content) = 503
            /\ SubSeq(content, 1, 500) = SubSeq(raw, 1, 500)
            /\ SubSeq(content, 501, 503) = "..."
            /\ msg = content
       ELSE content = raw /\ msg = raw

\* C17: a reply longer than 500 characters is stored and emitted as its
\* first 500 characters followed by "...", a reply of at most 500 characters
\* is stored and emitted as it is; the 'response' event is the last thing
\* the turn sends.
C17_ReplyLimitedTo500 ==
  \A k \in DOMAIN messages :
    messages[k].role = "assistant" =>
      LET i == messages[k].by
          out == tasks[i].out
      IN /\ tasks[i].pc = "done"
         /\ out # <<>> /\ out[Len(out)].ev = "response"
         /\ PersistedAndEmitted(i, messages[k].content, out[Len(out)].msg)

\* one turn stored and emitted a reply of exactly 500 characters, another a
\* reply of 501 characters
C17_BoundaryAndLongReply ==
  \E k, l \in DOMAIN messages :
    /\ messages[k].role = "assistant" /\ messages[l].role = "assistant"
    /\ Len(tasks[messages[k].by].resp) = 500 /\ Len(messages[k].content) = 500
    /\ Len(tasks[messages[l].by].resp) = 501 /\ Len(messages[l].content) = 503
    /\ Completed(messages[k].by) /\ Completed(messages[l].by)

RECURSIVE SheetContributions(_, _, _)
\* what the sheets from the k-th on contribute: the formatted values of
\* every sheet whose fetch succeeded, nothing for one whose fetch failed
SheetContributions(ids, got, k) ==
  IF k > Len(ids) THEN ""
  ELSE (IF got[k].ok THEN FormatSheet(ids[k], got[k].data) ELSE "")
         \o SheetContributions(ids, got, k + 1)

\* C18: a failed fetch of one of the configured sheets leaves out that
\* sheet only: the spreadsheet block put in front of the message list holds
\* the label and the formatted values of every sheet fetched, in configured
\* order; no fetch outcome ends the turn or reports an error, and a turn
\* with a failed fetch that ends without failure has stored its assistant
\* Message.
C18_FailedSheetOnlyOmitted ==
  [][\A i \in TaskIds :
       /\ (tasks[i].pc = "m_sheet" /\ tasks'[i] # tasks[i]) =>
            LET ids == settings.knowledgeBaseSheetIds
                t == tasks'[i]
            IN /\ t.pc \in {"m_sheet", "m_url", "m_complete"}
               /\ t.failed = ""
               /\ \A k \in DOMAIN t.out : t.out[k].ev # "error"
               /\ t.pc # "m_sheet" =>
                    /\ Len(t.got) = Len(ids)
                    /\ t.fm = <<[role |-> "system",
                                 content |-> "Additional Context:\n"
                                   \o "Knowledge Base Information:\n"
                                   \o SheetContributions(ids, t.got, 1)]>>
                                \o tasks[i].fm
       /\ (IsTurn(i) /\ tasks'[i].pc = "done" /\ tasks'[i].failed = ""
             /\ \E k \in DOMAIN tasks'[i].got : ~tasks'[i].got[k].ok) =>
            \E m \in DOMAIN messages' :
              messages'[m].by = i /\ messages'[m].role = "assistant"]_vars

\* a turn completed whose first sheet failed to fetch and whose second
\* sheet's rows are in the block sent to the completion backend
C18_TurnWithOneSheetFailed ==
  \E i \in TaskIds :
    /\ Completed(i) /\ MessagesBy(i, "assistant") # {}
    /\ Len(tasks[i].got) = 2
    /\ ~tasks[i].got[1].ok
    /\ tasks[i].got[2].ok /\ tasks[i].got[2].data # <<>>
    /\ \E k \in DOMAIN tasks[i].fm :
         tasks[i].fm[k].content =
           "Additional Context:\nKnowledge Base Information:\n"
             \o "\nData from Sheet k2:\nitem: tea, price: 3\nitem: milk, price: \n"

\* the turn has called the completion backend with its message list
Sent(i) == IsTurn(i) /\ \E k \in DOMAIN tasks[i].out : tasks[i].out[k].ev = "typing"

StartsWith(text, prefix) ==
  Len(text) >= Len(prefix) /\ SubSeq(text, 1, Len(prefix)) = prefix

LabelOnlyBlocks ==
  { "Additional Context:\nKnowledge Base Information:\n",
    "Additional Context:\nWebpage Knowledge Base:\n" }

\* C20: a category adds a block only when it has content to contribute: no
\* message list sent to the completion backend holds a block that is only a
\* category label, and a turn all of whose sheet fetches failed sent no
\* spreadsheet block.
C20_NoBlockWithoutContent ==
  \A i \in TaskIds : Sent(i) =>
    /\ \A k \in DOMAIN tasks[i].fm : tasks[i].fm[k].content \notin LabelOnlyBlocks
    /\ (tasks[i].got # <<>> /\ \A g \in DOMAIN tasks[i].got : ~tasks[i].got[g].ok) =>
         \A k \in DOMAIN tasks[i].fm :
           ~StartsWith(tasks[i].fm[k].content, "Additional Context:\nKnowledge Base Information:\n")

\* C21: the completion backend is called only after every fetch of the turn
\* has settled: a turn that is fetching has not called it, and a turn that
\* has called it holds the outcome of one fetch per configured sheet and
\* per configured URL.
C21_CompletionAfterAllFetches ==
  \A i \in TaskIds : IsTurn(i) =>
    /\ tasks[i].pc \in {"m_sheet", "m_url"} => ~Sent(i)
    /\ Sent(i) =>
         /\ Len(tasks[i].got) = Len(settings.knowledgeBaseSheetIds)
         /\ Len(tasks[i].gotWeb) = Len(settings.knowledgeBaseUrls)

\* the completion was called after two sheet fetches and a page fetch, of
\* which one failed
C21_CalledAfterThreeFetches ==
  \E i \in TaskIds :
    /\ Sent(i) /\ tasks[i].pc = "m_complete"
    /\ Len(tasks[i].got) = 2 /\ Len(tasks[i].gotWeb) = 1
    /\ tasks[i].got[2].ok /\ ~tasks[i].gotWeb[1]

\* C22: the teardown of a key without an active session is a no-op and not
\* an error: no step of it changes the sessions, the Messages, the
\* ChatVariable records or the exported rows, and it sends no error report.
C22_AbsentSessionTeardownIsNoOp ==
  [][\A i \in TaskIds :
       (IsTeardown(i) /\ tasks[i].sid \notin sessions /\ tasks'[i] # tasks[i]) =>
         /\ sessions' = sessions
         /\ messages' = messages
         /\ chatVars' = chatVars
         /\ sheetRows' = sheetRows
         /\ \A k \in DOMAIN tasks'[i].out : tasks'[i].out[k].ev \notin {"error", "http500"}]_vars

\* C23: ChatSession.create for a key that has a session fails and leaves
\* the sessions and the Messages as they were; for a key without a session
\* it creates the session, and no Message belongs to it.
C23_CreateFailsOnDuplicate ==
  [][\A i \in TaskIds :
       (tasks[i].pc = "c_create" /\ tasks'[i].pc # "c_create") =>
         IF tasks[i].sid \in sessions
           THEN /\ tasks'[i].failed = "duplicate"
                /\ sessions' = sessions
                /\ messages' = messages
           ELSE /\ tasks'[i].failed = ""
                /\ sessions' = sessions \cup {tasks[i].sid}
                /\ MessagesOf(messages', tasks[i].sid) = <<>>]_vars

\* a startChat failed on a session that holds Messages
C23_DuplicateOnSessionWithHistory ==
  \E i \in TaskIds :
    /\ tasks[i].kind = "startChat" /\ tasks[i].failed = "duplicate"
    /\ tasks[i].sid \in sessions
    /\ MessagesOf(messages, tasks[i].sid) # <<>>

\* C24: a message event whose session lookup finds no session is ignored:
\* the handler returns at once, having sent nothing (no 'typing', which
\* precedes the completion call, and no error), and the sessions, the
\* Messages and the ChatVariable records stay as they were; no Message of
\* such a turn is ever stored.
C24_MessageWithoutSessionIgnored ==
  [][\A i \in TaskIds :
       /\ (tasks[i].pc = "m_find" /\ tasks[i].sid \notin sessions /\ tasks'[i] # tasks[i]) =>
            /\ tasks'[i].pc = "done" /\ tasks'[i].failed = "nosession"
            /\ tasks'[i].out = <<>>
            /\ sessions' = sessions /\ messages' = messages /\ chatVars' = chatVars
       /\ (i \in DOMAIN tasks' /\ tasks'[i].failed = "nosession") =>
            /\ tasks'[i].pc = "done" /\ tasks'[i].out = <<>>
            /\ \A k \in DOMAIN messages' : messages'[k].by # i]_vars

\* a message event was ignored after the session of its key had been
\* created and torn down
C24_StaleMessageIgnored ==
  \E i, j, k \in TaskIds :
    /\ IsTurn(i) /\ tasks[i].failed = "nosession" /\ tasks[i].pc = "done"
    /\ Started(k) /\ tasks[k].sid = tasks[i].sid
    /\ IsTeardown(j) /\ tasks[j].pc = "done" /\ tasks[j].failed = ""
    /\ tasks[i].sid \notin sessions

\* C25: without a GlobalSettings row no turn calls the completion backend
\* or stores an assistant Message, and a turn that read the settings has
\* returned with 'error' as the last thing sent to its caller.
C25_NoSettingsTurnIsFatal ==
  ~settings.exists =>
    \A i \in TaskIds : IsTurn(i) =>
      /\ ~Sent(i)
      /\ MessagesBy(i, "assistant") = {}
      /\ tasks[i].pc \in {"m_find", "m_user", "m_hist", "m_settings", "done"}
      /\ (tasks[i].pc = "done" /\ tasks[i].failed \notin {"nosession", "fk"}) =>
           /\ tasks[i].failed = "settings"
           /\ tasks[i].out # <<>>
           /\ tasks[i].out[Len(tasks[i].out)].ev = "error"

\* a turn stored its user Message and ended on the missing settings row
C25_TurnEndedOnMissingSettings ==
  \E i \in TaskIds :
    /\ IsTurn(i) /\ tasks[i].failed = "settings" /\ tasks[i].pc = "done"
    /\ ~settings.exists
    /\ MessagesBy(i, "user") # {}

\* C26: a step of a handler of one connection changes neither the
\* existence nor the Messages of the session of another key.
C26_SessionsIndependent ==
  [][\A i \in TaskIds :
       (tasks[i].sock # "http" /\ tasks'[i] # tasks[i]) =>
         \A k \in Connections \ {tasks[i].sock} :
           /\ (k \in sessions') = (k \in sessions)
           /\ MessagesOf(messages', k) = MessagesOf(messages, k)]_vars

\* the steps of a teardown, in the order of its handler
TeardownOrder ==
  { <<"a_settings", "a_msgs">>, <<"a_settings", "w_settings">>,
    <<"a_msgs", "a_complete">>,
    <<"a_complete", "a_save">>, <<"a_complete", "w_settings">>, <<"a_complete", "done">>,
    <<"a_save", "a_save">>, <<"a_save", "w_settings">>, <<"a_save", "done">>,
    <<"w_settings", "w_vars">>, <<"w_settings", "d_msgs">>,
    <<"w_vars", "w_append">>, <<"w_vars", "d_msgs">>,
    <<"w_append", "d_msgs">>,
    <<"d_msgs", "d_session">>,
    <<"d_session", "done">> }

\* C27 (as stated): a teardown deletes the Messages of its session only
\* after its extraction step has read them.
C27_CleanupAfterRead ==
  \A i \in TaskIds :
    (IsTeardown(i) /\ (tasks[i].pc = "d_session" \/ (tasks[i].pc = "done" /\ tasks[i].failed = "")))
      => tasks[i].reqs >= 1

\* C27 (amended): every teardown runs extraction, export, Message.destroy,
\* ChatSession.destroy in this order: it changes the Messages only in its
\* two destroy steps and the sessions only in the last one, both after the
\* extraction has returned and the export has been attempted; the
\* extraction has read the Messages and sent its request when extraction
\* fields are configured, and has read nothing when none is.
C27_ExtractionExportCleanup ==
  [][\A i \in TaskIds :
       (IsTeardown(i) /\ tasks'[i] # tasks[i]) =>
         /\ <<tasks[i].pc, tasks'[i].pc>> \in TeardownOrder
         /\ (tasks'[i].pc = "done" /\ tasks[i].pc # "d_session") => tasks'[i].failed # ""
         /\ messages' # messages => tasks[i].pc \in {"d_msgs", "d_session"}
         /\ sessions' # sessions => tasks[i].pc = "d_session"
         /\ tasks[i].pc = "d_msgs" =>
              (tasks[i].reqs >= 1 <=> Len(settings.extractionHeaders) > 0)]_vars

\* a teardown read the Messages of a completed exchange, exported a row and
\* then removed the Messages and the session
C27_FullTeardownDone ==
  \E i, j \in TaskIds :
    /\ IsTeardown(i) /\ tasks[i].pc = "done" /\ tasks[i].failed = ""
    /\ tasks[i].reqs >= 1 /\ ExportedRow(i)
    /\ Completed(j) /\ tasks[j].sid = tasks[i].sid
    /\ tasks[i].sid \notin sessions
    /\ MessagesOf(messages, tasks[i].sid) = <<>>

NoDuplicate(list) == \A k, l \in DOMAIN list : list[k] = list[l] => k = l

\* the request was answered with success
Answered200(t) == t.pc = "done" /\ t.out # <<>> /\ t.out[Len(t.out)].ev = "http200"

\* C28: whatever the order in which the steps of the add and remove
\* requests run, the sheet list and the URL list hold no entry twice, and
\* an entry whose remove was answered with success, and which no request
\* added, is not in the list.
C28_ListsAreSets ==
  /\ NoDuplicate(settings.knowledgeBaseSheetIds)
  /\ NoDuplicate(settings.knowledgeBaseUrls)
  /\ \A r \in TaskIds :
       (/\ tasks[r].kind \in KbKinds /\ tasks[r].act = "remove" /\ Answered200(tasks[r])
        /\ \A j \in TaskIds : ~(/\ tasks[j].kind = tasks[r].kind /\ tasks[j].act = "add"
                                  /\ tasks[j].text = tasks[r].text))
         => ~Includes(KbList(settings, tasks[r].kind), tasks[r].text)

CountRole(sid, role) ==
  Cardinality({k \in DOMAIN messages : messages[k].sessionId = sid /\ messages[k].role = role})

\* C30: every session holds at most as many assistant Messages as user
\* Messages.
C30_AssistantsAtMostUsers ==
  \A sid \in SocketIds : CountRole(sid, "assistant") <= CountRole(sid, "user")

\* the paths of the PDF files the directory holds
ExistingPdfPaths(fs) ==
  (IF fs["a.pdf"] > 0 THEN {"kb_pdfs/a.pdf"} ELSE {})
    \cup (IF fs["B.PDF"] > 0 THEN {"kb_pdfs/B.PDF"} ELSE {})

IsScan(i) == tasks[i].kind = "scan"

\* C29: a scan extracts the text of a file only when the file has no cached
\* row or is newer than its cached row, the cache changes in no other
\* step, and when a scan returns without failure the list of document
\* references holds the path of every PDF file of the directory, once, and
\* nothing else.
C29_ScanExtractsNewerAndPrunes ==
  [][\A i \in TaskIds : (IsScan(i) /\ tasks'[i] # tasks[i]) =>
       LET t == tasks[i]
       IN /\ pdfContent' # pdfContent =>
               LET f == t.row[t.idx]
                   p == "kb_pdfs/" \o f
               IN /\ t.pc = "s_process"
                  /\ pdfContent[p].lastModified = 0 \/ pdfContent[p].lastModified < files[f]
                  /\ pdfContent' = [pdfContent EXCEPT ![p] =
                                      [lastModified |-> files[f], content |-> files[f]]]
          /\ tasks'[i].pc = "s_process" =>
               \/ pdfContent[ScanPath(t)].lastModified = 0
               \/ pdfContent[ScanPath(t)].lastModified < files[ScanFile(t)]
          /\ (tasks'[i].pc = "done" /\ tasks'[i].failed = "") =>
               LET list == settings'.knowledgeBasePdfPaths
               IN /\ {list[k] : k \in DOMAIN list} = ExistingPdfPaths(files)
                  /\ \A k, l \in DOMAIN list : list[k] = list[l] => k = l]_vars

\* three scans returned: the first extracted two files, the second, after
\* one file was deleted and the other touched, extracted one and pruned
\* the reference of the deleted file, the third extracted nothing
C29_ExtractedPrunedSkipped ==
  \E i, j, k \in TaskIds :
    /\ i < j /\ j < k
    /\ \A x \in {i, j, k} : IsScan(x) /\ tasks[x].pc = "done" /\ tasks[x].failed = ""
    /\ Len(tasks[i].row) = 2 /\ tasks[i].reqs = 2
    /\ tasks[j].row = <<"a.pdf">> /\ tasks[j].reqs = 1
    /\ tasks[k].row = <<"a.pdf">> /\ tasks[k].reqs = 0
    /\ settings.knowledgeBasePdfPaths = <<"kb_pdfs/a.pdf">>
    /\ pdfContent["kb_pdfs/B.PDF"].lastModified > 0

----------------------------------------------------------------------------
(* Turns under fair scheduling: the event loop runs every continuation     *)
(* whose awaited call has returned or failed                               *)

TurnSettings == {NoSettings, DefaultSettings}

InitTurns ==
  /\ sockets = [s \in SocketIds |-> "new"]
  /\ sessions = {}
  /\ messages = <<>>
  /\ chatVars = <<>>
  /\ settings \in TurnSettings
  /\ sheetRows = <<>>
  /\ tasks = <<>>
  /\ now = 0
  /\ nextId = 1
  /\ files = NoFiles
  /\ pdfContent = NoPdfContent
  /\ migrations = ShippedMigrations
  /\ SequelizeMeta = {}
  /\ applied = NoneApplied

NextTurns ==
  \/ \E s \in SocketIds : Connect(s)
  \/ \E s \in SocketIds : StartChat(s)
  \/ \E s \in SocketIds, text \in UserTexts : Message(s, text)
  \/ \E s \in SocketIds : DeleteSession(s, s)
  \/ \E s \in SocketIds : Disconnect(s)
  \/ \E i \in TaskIds : StartChatCreate(i)
  \/ \E i \in TaskIds : MsgFind(i)
  \/ \E i \in TaskIds : MsgUser(i)
  \/ \E i \in TaskIds : MsgHistory(i)
  \/ \E i \in TaskIds : MsgSettings(i)
  \/ \E i \in TaskIds : MsgCompleteFail(i)
  \/ \E i \in TaskIds : MsgComplete(i)
  \/ \E i \in TaskIds : MsgAssistant(i)
  \/ \E i \in TaskIds : AnalyzeSettings(i)
  \/ \E i \in TaskIds : ExportSettings(i)
  \/ \E i \in TaskIds : DestroyMessagesStep(i)
  \/ \E i \in TaskIds : DestroySessionStep(i)

\* the continuation of a handler after an await
Continue ==
  \E i \in TaskIds :
    \/ StartChatCreate(i)
    \/ MsgFind(i)
    \/ MsgUser(i)
    \/ MsgHistory(i)
    \/ MsgSettings(i)
    \/ MsgCompleteFail(i)
    \/ MsgComplete(i)
    \/ MsgAssistant(i)
    \/ AnalyzeSettings(i)
    \/ ExportSettings(i)
    \/ DestroyMessagesStep(i)
    \/ DestroySessionStep(i)

SpecTurns == InitTurns /\ [][NextTurns]_vars /\ WF_vars(Continue)

\* positions of the events of one kind that turn i emitted
EmittedAt(i, ev) == {k \in DOMAIN tasks[i].out : tasks[i].out[k].ev = ev}

\* every typing signal of turn i has a stopTyping signal after it
TypingStopped(i) ==
  \A k \in EmittedAt(i, "typing") : \E l \in EmittedAt(i, "stopTyping") : k < l

\* C32: every typing signal a turn emits is eventually followed by a
\* stopTyping signal of that turn, when the completion succeeds and when
\* it fails.
C32_TypingEventuallyStops ==
  \A i \in 1..MaxTasks :
    (i \in TaskIds /\ Sent(i)) ~> (i \in TaskIds /\ TypingStopped(i))

\* the turn's lookup found a session: the turn is past findByPk
Accepted(i) ==
  IsTurn(i) /\ tasks[i].pc # "m_find" /\ tasks[i].failed # "nosession"

\* the outcomes turn i emitted
Outcomes(i) == EmittedAt(i, "response") \cup EmittedAt(i, "error")

\* C31: a message event whose session exists emits at most one outcome
\* while it runs, and eventually returns having emitted exactly one:
\* one response or one error.
C31_ExactlyOneOutcome ==
  /\ [](\A i \in TaskIds :
          Accepted(i) =>
            /\ Cardinality(Outcomes(i)) <= 1
            /\ tasks[i].pc = "done" => Cardinality(Outcomes(i)) = 1)
  /\ \A i \in 1..MaxTasks :
       (i \in TaskIds /\ Accepted(i)) ~>
         (/\ i \in TaskIds
          /\ tasks[i].pc = "done"
          /\ Cardinality(Outcomes(i)) = 1)

\* two turns of one session returned, one answered and one reported an
\* error, and a third turn failed on the foreign key of a removed session
C31_ResponseAndErrorSeen ==
  \E i, j \in TaskIds :
    /\ Accepted(i) /\ tasks[i].pc = "done"
    /\ Cardinality(EmittedAt(i, "response")) = 1 /\ EmittedAt(i, "error") = {}
    /\ Accepted(j) /\ tasks[j].pc = "done"
    /\ Cardinality(EmittedAt(j, "error")) = 1 /\ EmittedAt(j, "response") = {}
    /\ tasks[j].failed \in {"completion", "fk"}

----------------------------------------------------------------------------
(* runMigrations: the migration runner, one process per run *)

\* files.filter(f => f.endsWith('.js')) over fs.readdir(migrationsDir)
MigrationFiles(dir) ==
  SelectSeq(MigrationsDirOrder, LAMBDA f : f \in dir /\ EndsWith(f, ".js"))

\* SELECT name FROM "SequelizeMeta", mapped to the names
ExecutedMigrationNames(meta) == SelectSeq(MigrationsDirOrder, LAMBDA f : f \in meta)

MigFile(t) == t.row[t.idx]

\* the for loop: files the executed names include are skipped; 'up' of the
\* next pending file is called, or the run ends with process.exit(0)
MigNext(t) ==
  LET pending == {k \in DOMAIN t.row : k > t.idx /\ ~Includes(t.headers, t.row[k])}
  IN IF pending = {} THEN Return(t)
     ELSE [t EXCEPT !.pc = "g_up",
                    !.idx = CHOOSE k \in pending : \A l \in pending : k <= l]

\* the catch: process.exit(1)
MigExit1(t, why) == Return([t EXCEPT !.failed = why])

\* a file is added to the migrations directory while no run is in progress
AddMigrationFile(f) ==
  /\ Quiet
  /\ f \notin migrations
  /\ migrations' = migrations \cup {f}
  /\ UNCHANGED <<sockets, sessions, messages, chatVars, settings, sheetRows, tasks, now, nextId>>
  /\ UNCHANGED <<files, pdfContent, SequelizeMeta, applied>>

\* the script is started: CREATE TABLE IF NOT EXISTS is issued
RunMigrations ==
  /\ Quiet /\ Admits
  /\ tasks' = Append(tasks, [NewTask("migrate", "db", NULL, "") EXCEPT !.pc = "g_table"])
  /\ UNCHANGED <<sockets, sessions, messages, chatVars, settings, sheetRows, now, nextId>>
  /\ UNCHANGED <<files, pdfContent, migrations, SequelizeMeta, applied>>

\* the table exists or the query failed; fs.readdir is issued
MigTable(i, ok) ==
  /\ tasks[i].pc = "g_table"
  /\ tasks' = [tasks EXCEPT ![i] =
       IF ok THEN [@ EXCEPT !.pc = "g_readdir"] ELSE MigExit1(@, "table")]
  /\ UNCHANGED <<sockets, sessions, messages, chatVars, settings, sheetRows, now, nextId>>
  /\ UNCHANGED <<files, pdfContent, migrations, SequelizeMeta, applied>>

\* the directory is listed and filtered; the SELECT is issued
MigReaddir(i) ==
  /\ tasks[i].pc = "g_readdir"
  /\ tasks' = [tasks EXCEPT ![i].pc = "g_select", ![i].row = MigrationFiles(migrations)]
  /\ UNCHANGED <<sockets, sessions, messages, chatVars, settings, sheetRows, now, nextId>>
  /\ UNCHANGED <<files, pdfContent, migrations, SequelizeMeta, applied>>

\* the executed names arrive and the loop starts
MigSelect(i) ==
  /\ tasks[i].pc = "g_select"
  /\ LET t == tasks[i]
     IN tasks' = [tasks EXCEPT ![i] =
          MigNext([t EXCEPT !.headers = ExecutedMigrationNames(SequelizeMeta), !.idx = 0])]
  /\ UNCHANGED <<sockets, sessions, messages, chatVars, settings, sheetRows, now, nextId>>
  /\ UNCHANGED <<files, pdfContent, migrations, SequelizeMeta, applied>>

\* migration.up resolved: the INSERT is issued; or it rejected
MigUp(i, ok) ==
  /\ tasks[i].pc = "g_up"
  /\ LET t == tasks[i]
     IN /\ tasks' = [tasks EXCEPT ![i] =
             IF ok THEN [t EXCEPT !.pc = "g_insert"] ELSE MigExit1(t, "up")]
        /\ applied' = IF ok THEN [applied EXCEPT ![MigFile(t)] = @ + 1] ELSE applied
  /\ UNCHANGED <<sockets, sessions, messages, chatVars, settings, sheetRows, now, nextId>>
  /\ UNCHANGED <<files, pdfContent, migrations, SequelizeMeta>>

\* the INSERT INTO "SequelizeMeta" stored the name and the loop goes on; or
\* it failed
MigInsert(i, ok) ==
  /\ tasks[i].pc = "g_insert"
  /\ LET t == tasks[i]
     IN /\ tasks' = [tasks EXCEPT ![i] = IF ok THEN MigNext(t) ELSE MigExit1(t, "insert")]
        /\ SequelizeMeta' = IF ok THEN SequelizeMeta \cup {MigFile(t)} ELSE SequelizeMeta
  /\ UNCHANGED <<sockets, sessions, messages, chatVars, settings, sheetRows, now, nextId>>
  /\ UNCHANGED <<files, pdfContent, migrations, applied>>

InitMigrate ==
  /\ sockets = [s \in SocketIds |-> "new"]
  /\ sessions = {}
  /\ messages = <<>>
  /\ chatVars = <<>>
  /\ settings = NoSettings
  /\ sheetRows = <<>>
  /\ tasks = <<>>
  /\ now = 0
  /\ nextId = 1
  /\ files = NoFiles
  /\ pdfContent = NoPdfContent
  /\ migrations \in {{}, ShippedMigrations}
  /\ SequelizeMeta = {}
  /\ applied = NoneApplied

NextMigrate ==
  \/ \E f \in MigrationNames : AddMigrationFile(f)
  \/ RunMigrations
  \/ \E i \in TaskIds, ok \in BOOLEAN : MigTable(i, ok)
  \/ \E i \in TaskIds : MigReaddir(i)
  \/ \E i \in TaskIds : MigSelect(i)
  \/ \E i \in TaskIds, ok \in BOOLEAN : MigUp(i, ok)
  \/ \E i \in TaskIds, ok \in BOOLEAN : MigInsert(i, ok)

SpecMigrate == InitMigrate /\ [][NextMigrate]_vars

IsMigration(i) == tasks[i].kind = "migrate"

====
